---- MODULE Spec2Model ----
(***************************************************************************)
(* PlayLMS: the progress / gamification aggregates of the backend.         *)
(*                                                                         *)
(* One Course document, one Progress document per learner of that course   *)
(* and one User document per learner, as the Mongoose models define them   *)
(* (backend/src/models), driven by the Express handlers of                 *)
(* backend/src/routes/progress.js and backend/src/routes/courses.js.       *)
(* A handler runs to completion: one action is one request.                *)
(*                                                                         *)
(* Date fields that are only written and never read by a handler           *)
(* (lastWatched, lastAccessed, enrolledAt, createdAt, updatedAt) are left  *)
(* out of the documents; completedAt stamps are kept.                      *)
(***************************************************************************)
EXTENDS Integers, Sequences, FiniteSets, TLC

VARIABLES
  progress,   \* the Progress collection: learner -> document, or NoProgress
  course,     \* the Course document
  users,      \* the User collection: learner -> document
  now,        \* the wall clock read by new Date()
  nextId,     \* the next ObjectId handed to a new note / bookmark subdocument
  response,   \* the reply of the last request
  activeDays, \* per learner, the days on which updateStreak ran (history)
  catalog,    \* the video catalog collaborator as one ingestion sees it
  fetched,    \* the outcome of the last getPlaylistVideos call
  courses,    \* the Course collection the convert route writes
  converts,   \* the convert requests in flight
  token,      \* the duration token handed to parseDuration
  parsed,     \* the outcome of parseDuration on it
  handlers    \* the enroll / watch requests in flight, step by step

\* the variables of the ingestion side
ingestVars == <<catalog, fetched, courses, converts, token, parsed>>

vars ==
  <<progress, course, users, now, nextId, response, activeDays, ingestVars, handlers>>

---------------------------------------------------------------------------
(* Bounds of the model *)

NumUsers == 1            \* learners
TotalModules == 2        \* modules of the course
MaxTime == 2             \* the clock runs 1..MaxTime
MaxWatchTime == 60       \* cap of one module's cumulative watchTime (seconds)
MaxVideosWatched == 2    \* cap of User.totalVideosWatched
MaxXP == 450             \* cap of User.xp
MaxIds == 1              \* ObjectIds handed out
MaxSessions == 2         \* learning sessions per Progress
NumRequesters == 2       \* clients sending convert requests

Users == 1..NumUsers
\* moduleOrder path parameters after parseInt: the course's orders and one
\* order that is not a module of the course
OrderInputs == 1..(TotalModules + 1)
\* watchTime bodies accepted by isInt({min: 0})
WatchTimes == {0, 30}
\* amounts handed to addXP
XPAmounts == {0, 1, 10, 99, 100}

Null == 0                \* a Date field holding null
NoProgress == [none |-> TRUE]   \* findOne() found nothing

---------------------------------------------------------------------------
(* Arithmetic of the source *)

\* Math.round(n / d) for n >= 0, d > 0: half rounds up
Round(n, d) == (2 * n + d) \div (2 * d)

\* Math.round((c / n) * 100)
Percent(c, n) == Round(100 * c, n)

RECURSIVE SumSeq(_)
SumSeq(s) == IF s = <<>> THEN 0 ELSE Head(s) + SumSeq(Tail(s))

\* arr.filter(test).length
CountIf(s, Test(_)) == Cardinality({i \in 1..Len(s) : Test(s[i])})

\* arr.findIndex(test), 1-based; 0 when nothing matches
FindIndex(s, Test(_)) ==
  IF \E i \in 1..Len(s) : Test(s[i])
  THEN CHOOSE i \in 1..Len(s) : Test(s[i]) /\ \A j \in 1..(i - 1) : ~Test(s[j])
  ELSE 0

\* arr.includes(x)
Includes(s, x) == \E i \in 1..Len(s) : s[i] = x

\* arr.splice(i, 1)
Splice(s, i) == [j \in 1..(Len(s) - 1) |-> IF j < i THEN s[j] ELSE s[j + 1]]

---------------------------------------------------------------------------
(* models/Progress.js *)

\* the sub-record pushed for a module order seen for the first time
NewModuleProgress(moduleOrder) ==
  [moduleOrder |-> moduleOrder, isCompleted |-> FALSE, watchTime |-> 0,
   completedAt |-> Null, notes |-> <<>>, bookmarks |-> <<>>]

\* new Progress({user, course}): the schema defaults, created at time t
NewProgress(t) ==
  [moduleProgress |-> <<>>, overallProgress |-> 0, totalWatchTime |-> 0,
   completedModules |-> 0, isCompleted |-> FALSE, completedAt |-> Null,
   learningSessions |-> <<>>, currentStreak |-> 0, longestStreak |-> 0,
   lastActivityDate |-> t, achievements |-> <<>>]

\* this.moduleProgress.find(mp => mp.moduleOrder === moduleOrder), as an index
FindModuleProgress(p, moduleOrder) ==
  FindIndex(p.moduleProgress, LAMBDA mp : mp.moduleOrder = moduleOrder)

\* updateOverallProgress deriving the completion flag and stamp from the
\* percentage on every call
updateOverallProgress_Rederives(p, t) ==
  IF Len(p.moduleProgress) = 0
  THEN [p EXCEPT !.overallProgress = 0]
  ELSE LET completedModules == CountIf(p.moduleProgress, LAMBDA mp : mp.isCompleted)
           pct == Percent(completedModules, Len(p.moduleProgress))
           watchTimes == [i \in 1..Len(p.moduleProgress) |-> p.moduleProgress[i].watchTime]
       IN [p EXCEPT !.overallProgress = pct,
                    !.isCompleted = pct >= 100,
                    !.completedAt = IF pct >= 100 THEN t ELSE Null,
                    !.totalWatchTime = Round(SumSeq(watchTimes), 60)]

\* progressSchema.methods.updateOverallProgress, run at time t
updateOverallProgress(p, t) ==
  IF Len(p.moduleProgress) = 0
  THEN [p EXCEPT !.overallProgress = 0]
  ELSE LET completedModules == CountIf(p.moduleProgress, LAMBDA mp : mp.isCompleted)
           pct == Percent(completedModules, Len(p.moduleProgress))
           justCompleted == pct >= 100 /\ ~p.isCompleted
           watchTimes == [i \in 1..Len(p.moduleProgress) |-> p.moduleProgress[i].watchTime]
       IN [p EXCEPT !.overallProgress = pct,
                    !.isCompleted = IF justCompleted THEN TRUE ELSE @,
                    !.completedAt = IF justCompleted THEN t ELSE @,
                    !.totalWatchTime = Round(SumSeq(watchTimes), 60)]

\* updateModuleProgress overwriting the module's watchTime and completion flag
\* with the values of the call
updateModuleProgress_Overwrites(p, moduleOrder, watchTime, isCompleted, t) ==
  LET found == FindModuleProgress(p, moduleOrder)
      pushed == IF found = 0
                THEN Append(p.moduleProgress, NewModuleProgress(moduleOrder))
                ELSE p.moduleProgress
      i == IF found = 0 THEN Len(pushed) ELSE found
      completes == isCompleted /\ ~pushed[i].isCompleted
      mp == [pushed[i] EXCEPT !.watchTime = watchTime,
                              !.isCompleted = isCompleted,
                              !.completedAt = IF completes THEN t ELSE @]
      p1 == [p EXCEPT !.moduleProgress = [pushed EXCEPT ![i] = mp],
                      !.completedModules = IF completes THEN @ + 1 ELSE @]
  IN updateOverallProgress(p1, t)

\* updateModuleProgress recomputing the overall progress before it marks the
\* module completed
updateModuleProgress_StaleOverall(p, moduleOrder, watchTime, isCompleted, t) ==
  LET found == FindModuleProgress(p, moduleOrder)
      pushed == IF found = 0
                THEN Append(p.moduleProgress, NewModuleProgress(moduleOrder))
                ELSE p.moduleProgress
      i == IF found = 0 THEN Len(pushed) ELSE found
      completes == isCompleted /\ ~pushed[i].isCompleted
      mp == [pushed[i] EXCEPT !.watchTime = @ + watchTime,
                              !.isCompleted = IF completes THEN TRUE ELSE @,
                              !.completedAt = IF completes THEN t ELSE @]
      p0 == updateOverallProgress([p EXCEPT !.moduleProgress = pushed], t)
  IN [p0 EXCEPT !.moduleProgress = [pushed EXCEPT ![i] = mp],
                !.completedModules = IF completes THEN @ + 1 ELSE @]

\* updateModuleProgress counting every call that carries isCompleted = true
updateModuleProgress_CountsEveryCall(p, moduleOrder, watchTime, isCompleted, t) ==
  LET found == FindModuleProgress(p, moduleOrder)
      pushed == IF found = 0
                THEN Append(p.moduleProgress, NewModuleProgress(moduleOrder))
                ELSE p.moduleProgress
      i == IF found = 0 THEN Len(pushed) ELSE found
      mp == [pushed[i] EXCEPT !.watchTime = @ + watchTime,
                              !.isCompleted = IF isCompleted THEN TRUE ELSE @,
                              !.completedAt = IF isCompleted THEN t ELSE @]
      p1 == [p EXCEPT !.moduleProgress = [pushed EXCEPT ![i] = mp],
                      !.completedModules = IF isCompleted THEN @ + 1 ELSE @]
  IN updateOverallProgress(p1, t)

\* progressSchema.methods.updateModuleProgress, run at time t
updateModuleProgress(p, moduleOrder, watchTime, isCompleted, t) ==
  LET found == FindModuleProgress(p, moduleOrder)
      pushed == IF found = 0
                THEN Append(p.moduleProgress, NewModuleProgress(moduleOrder))
                ELSE p.moduleProgress
      i == IF found = 0 THEN Len(pushed) ELSE found
      completes == isCompleted /\ ~pushed[i].isCompleted
      mp == [pushed[i] EXCEPT !.watchTime = @ + watchTime,
                              !.isCompleted = IF completes THEN TRUE ELSE @,
                              !.completedAt = IF completes THEN t ELSE @]
      p1 == [p EXCEPT !.moduleProgress = [pushed EXCEPT ![i] = mp],
                      !.completedModules = IF completes THEN @ + 1 ELSE @]
  IN updateOverallProgress(p1, t)

\* one time unit of the clock is half a day: a day is 2 units (1000*60*60*24 ms),
\* a unit is 720 minutes
UnitsPerDay == 2
MinutesPerUnit == 720

\* the calendar day of time t
DayOf(t) == t \div UnitsPerDay

\* progressSchema.methods.updateStreak, run at time t
progressUpdateStreak(p, t) ==
  LET daysSinceLastActivity == (t - p.lastActivityDate) \div UnitsPerDay
      current == IF daysSinceLastActivity = 1 THEN p.currentStreak + 1
                 ELSE IF daysSinceLastActivity > 1 THEN 1
                 ELSE p.currentStreak
      longest == IF daysSinceLastActivity = 1 /\ current > p.longestStreak
                 THEN current ELSE p.longestStreak
  IN [p EXCEPT !.currentStreak = current, !.longestStreak = longest,
               !.lastActivityDate = t]

\* progressSchema.methods.addLearningSession, run at time t
addLearningSession(p, startTime, endTime, modulesWatched, xpEarned, t) ==
  LET session == [startTime |-> startTime, endTime |-> endTime,
                  duration |-> (endTime - startTime) * MinutesPerUnit,
                  modulesWatched |-> modulesWatched, xpEarned |-> xpEarned]
  IN progressUpdateStreak([p EXCEPT !.learningSessions = Append(@, session)], t)

\* progressSchema.methods.addAchievement returns true
addAchievementReturns(p, name) ==
  FindIndex(p.achievements, LAMBDA achievement : achievement.name = name) = 0

\* progressSchema.methods.addAchievement, run at time t
addAchievement(p, name, description, icon, t) ==
  IF addAchievementReturns(p, name)
  THEN [p EXCEPT !.achievements =
          Append(@, [name |-> name, description |-> description, icon |-> icon,
                     earnedAt |-> t])]
  ELSE p

\* progressSchema.methods.addNote returns true
addNoteFinds(p, moduleOrder) == FindModuleProgress(p, moduleOrder) # 0

\* addNote pushing the note to the first sub-record of the Progress
addNote_FirstModule(p, moduleOrder, content, timestamp, id) ==
  LET i == FindModuleProgress(p, moduleOrder)
  IN IF i # 0
     THEN [p EXCEPT !.moduleProgress[1].notes =
                       Append(@, [id |-> id, content |-> content, timestamp |-> timestamp])]
     ELSE p

\* progressSchema.methods.addNote: the document after the call; id is the
\* ObjectId of the pushed subdocument
addNote(p, moduleOrder, content, timestamp, id) ==
  LET i == FindModuleProgress(p, moduleOrder)
  IN IF i # 0
     THEN [p EXCEPT !.moduleProgress[i].notes =
                       Append(@, [id |-> id, content |-> content, timestamp |-> timestamp])]
     ELSE p

\* the title given to a bookmark: title || `Bookmark at M:SS`
BookmarkTitle(timestamp, title) ==
  IF title # "" THEN [text |-> title, minutes |-> 0, seconds |-> 0]
  ELSE [text |-> "Bookmark at", minutes |-> timestamp \div 60, seconds |-> timestamp % 60]

\* progressSchema.methods.addBookmark: the document after the call
addBookmark(p, moduleOrder, timestamp, title, id) ==
  LET i == FindModuleProgress(p, moduleOrder)
  IN IF i # 0
     THEN [p EXCEPT !.moduleProgress[i].bookmarks =
                       Append(@, [id |-> id, timestamp |-> timestamp,
                                  title |-> BookmarkTitle(timestamp, title)])]
     ELSE p

---------------------------------------------------------------------------
(* models/User.js: the User model *)

\* Math.floor(Math.sqrt(x / 100)): the largest k with 100 * k * k <= x
RECURSIVE SqrtSearch(_, _)
SqrtSearch(x, k) == IF 100 * (k + 1) * (k + 1) > x THEN k ELSE SqrtSearch(x, k + 1)

FloorSqrtHundredth(x) == SqrtSearch(x, 0)

\* a registered account: the schema defaults, created at time t
NewUser(t) ==
  [xp |-> 0, level |-> 1, totalCoursesEnrolled |-> 0, totalCoursesCompleted |-> 0,
   totalVideosWatched |-> 0, totalWatchTime |-> 0,
   streak |-> [current |-> 0, longest |-> 0, lastActivity |-> t],
   badges |-> <<>>]

\* addXP computing the level before it adds the amount
addXP_LevelBeforeAdd(user, amount) ==
  LET newLevel == FloorSqrtHundredth(user.xp) + 1
  IN [user EXCEPT !.xp = user.xp + amount,
                  !.level = IF newLevel > user.level THEN newLevel ELSE @]

\* userSchema.methods.addXP: the user document after the call
addXP(user, amount) ==
  LET xp == user.xp + amount
      newLevel == FloorSqrtHundredth(xp) + 1
  IN [user EXCEPT !.xp = xp,
                  !.level = IF newLevel > user.level THEN newLevel ELSE @]

\* addXP reporting a level-up whenever the recomputed level is not below the
\* stored one
addXPResult_ReportsReached(user, amount) ==
  LET newLevel == FloorSqrtHundredth(user.xp + amount) + 1
  IN IF newLevel >= user.level
     THEN [leveledUp |-> TRUE, newLevel |-> newLevel, xpGained |-> amount]
     ELSE [leveledUp |-> FALSE, newLevel |-> Null, xpGained |-> amount]

\* userSchema.methods.addXP: the value it returns
addXPResult(user, amount) ==
  LET newLevel == FloorSqrtHundredth(user.xp + amount) + 1
  IN IF newLevel > user.level
     THEN [leveledUp |-> TRUE, newLevel |-> newLevel, xpGained |-> amount]
     ELSE [leveledUp |-> FALSE, newLevel |-> Null, xpGained |-> amount]

\* updateStreak moving lastActivity only when a day has passed since it
updateStreak_KeepsAnchor(user, t) ==
  LET daysSinceLastActivity == (t - user.streak.lastActivity) \div UnitsPerDay
      current == IF daysSinceLastActivity = 1 THEN user.streak.current + 1
                 ELSE IF daysSinceLastActivity > 1 THEN 1
                 ELSE user.streak.current
      longest == IF daysSinceLastActivity = 1 /\ current > user.streak.longest
                 THEN current ELSE user.streak.longest
  IN [user EXCEPT !.streak = [current |-> current, longest |-> longest,
                              lastActivity |-> IF daysSinceLastActivity >= 1 THEN t
                                               ELSE user.streak.lastActivity]]

\* userSchema.methods.updateStreak, run at time t
updateStreak(user, t) ==
  LET daysSinceLastActivity == (t - user.streak.lastActivity) \div UnitsPerDay
      current == IF daysSinceLastActivity = 1 THEN user.streak.current + 1
                 ELSE IF daysSinceLastActivity > 1 THEN 1
                 ELSE user.streak.current
      longest == IF daysSinceLastActivity = 1 /\ current > user.streak.longest
                 THEN current ELSE user.streak.longest
  IN [user EXCEPT !.streak = [current |-> current, longest |-> longest,
                              lastActivity |-> t]]

\* userSchema.methods.addBadge returns true
addBadgeReturns(user, badgeName) ==
  FindIndex(user.badges, LAMBDA badge : badge.name = badgeName) = 0

\* addBadge replacing the badge of that name by the new award
addBadge_Upserts(user, badgeName, description, icon, t) ==
  LET i == FindIndex(user.badges, LAMBDA badge : badge.name = badgeName)
      awarded == [name |-> badgeName, description |-> description, icon |-> icon,
                  earnedAt |-> t]
  IN IF i = 0
     THEN [user EXCEPT !.badges = Append(@, awarded)]
     ELSE [user EXCEPT !.badges[i] = awarded]

\* userSchema.methods.addBadge, run at time t
addBadge(user, badgeName, description, icon, t) ==
  IF addBadgeReturns(user, badgeName)
  THEN [user EXCEPT !.badges =
          Append(@, [name |-> badgeName, description |-> description, icon |-> icon,
                     earnedAt |-> t])]
  ELSE user

---------------------------------------------------------------------------
(* models/User.js: the Course model *)

\* xpReward default of moduleSchema
DefaultXpReward == 10

\* duration (seconds) of the videos the course was built from
ModuleDuration == 60

NewCourse ==
  [modules |-> [i \in 1..TotalModules |->
                  [order |-> i, duration |-> ModuleDuration, xpReward |-> DefaultXpReward]],
   totalModules |-> TotalModules,
   totalDuration |-> Round(TotalModules * ModuleDuration, 60),
   totalXP |-> TotalModules * DefaultXpReward,
   enrolledUsers |-> <<>>, totalEnrollments |-> 0, totalCompletions |-> 0]

\* courseSchema.pre('save'): the totals recomputed from the modules
CoursePreSave(c) ==
  IF Len(c.modules) > 0
  THEN [c EXCEPT
          !.totalModules = Len(c.modules),
          !.totalDuration =
             Round(SumSeq([i \in 1..Len(c.modules) |-> c.modules[i].duration]), 60),
          !.totalXP = SumSeq([i \in 1..Len(c.modules) |-> c.modules[i].xpReward])]
  ELSE c

\* a unique index of the collection rejects the insert of c (E11000)
DuplicateKey_PlaylistOnly(coll, c) ==
  \E i \in 1..Len(coll) : coll[i].playlistId = c.playlistId

\* a unique index of the collection (playlistUrl, playlistId, slug) rejects the
\* insert of c (E11000)
DuplicateKey(coll, c) ==
  \E i \in 1..Len(coll) :
    \/ coll[i].playlistUrl = c.playlistUrl
    \/ coll[i].playlistId = c.playlistId
    \/ coll[i].slug = c.slug

\* the validation of a Course document fails: slug is required
CourseInvalid(c) == c.slug = <<>>

\* this.enrolledUsers.find(e => e.user.toString() === userId.toString()), as an index
FindEnrollment(c, userId) ==
  FindIndex(c.enrolledUsers, LAMBDA e : e.user = userId)

\* this.modules.find(m => m.order === order), as an index
FindModule(c, order) == FindIndex(c.modules, LAMBDA m : m.order = order)

\* courseSchema.methods.enrollUser
enrollUser(c, userId) ==
  IF FindEnrollment(c, userId) = 0
  THEN [c EXCEPT !.enrolledUsers =
                    Append(@, [user |-> userId, completedModules |-> <<>>, progress |-> 0]),
                 !.totalEnrollments = @ + 1]
  ELSE c

\* courseSchema.methods.completeModule throws 'User not enrolled in this course'
completeModuleThrows(c, userId) == FindEnrollment(c, userId) = 0

\* courseSchema.methods.completeModule, when it does not throw
completeModule(c, userId, moduleOrder) ==
  LET i == FindEnrollment(c, userId)
      e == c.enrolledUsers[i]
  IN IF ~Includes(e.completedModules, moduleOrder)
     THEN LET done == Append(e.completedModules, moduleOrder)
              pct == Percent(Len(done), c.totalModules)
          IN [c EXCEPT !.enrolledUsers[i] = [e EXCEPT !.completedModules = done,
                                                      !.progress = pct],
                       !.totalCompletions = IF pct >= 100 THEN @ + 1 ELSE @]
     ELSE c

---------------------------------------------------------------------------
(* services/youtubeService.js *)

NoCatalog == [none |-> TRUE]     \* no ingestion running
NotFetched == [none |-> TRUE]    \* getPlaylistVideos not called yet
Idle == [step |-> "idle"]        \* a requester with no request in flight
NoToken == [none |-> TRUE]       \* parseDuration has no argument yet
NotParsed == [none |-> TRUE]     \* parseDuration not called yet
Requesters == 1..NumRequesters

\* Math.min(a, b)
Min(a, b) == IF a <= b THEN a ELSE b

\* the page size cap of playlistItems.list: Math.min(maxResults, 50)
PageLimit == 50
\* getPlaylistVideos(playlistId, maxResults = 50)
DefaultMaxResults == 50
\* getPlaylistVideos(playlistId, 5) of the preview
PreviewMaxResults == 5

\* a string is a sequence of characters
IsDigit(c) == c \in {"0", "1", "2", "3", "4", "5", "6", "7", "8", "9"}

DigitValue(c) ==
  CASE c = "0" -> 0 [] c = "1" -> 1 [] c = "2" -> 2 [] c = "3" -> 3 [] c = "4" -> 4
    [] c = "5" -> 5 [] c = "6" -> 6 [] c = "7" -> 7 [] c = "8" -> 8 [] c = "9" -> 9

\* the index after the run of digits matched by \d+ from index j (j if none)
RECURSIVE DigitRunEnd(_, _)
DigitRunEnd(s, j) ==
  IF j <= Len(s) /\ IsDigit(s[j]) THEN DigitRunEnd(s, j + 1) ELSE j

\* parseInt of the digits s[a..b]
RECURSIVE ParseInt(_, _, _)
ParseInt(s, a, b) ==
  IF a > b THEN 0 ELSE ParseInt(s, a, b - 1) * 10 + DigitValue(s[b])

\* one optional group (\d+X)? of the pattern tried at index j: its number
\* (0 when the group does not take part) and the index after it
DurationGroup(s, j, unit) ==
  LET k == DigitRunEnd(s, j)
  IN IF k > j /\ k <= Len(s) /\ s[k] = unit
     THEN [value |-> ParseInt(s, j, k - 1), next |-> k + 1]
     ELSE [value |-> 0, next |-> j]

\* duration.match(/PT(\d+H)?(\d+M)?(\d+S)?/): the index of the leftmost "PT",
\* 0 when the match is null
MatchPT(s) ==
  IF \E i \in 1..(Len(s) - 1) : s[i] = "P" /\ s[i + 1] = "T"
  THEN CHOOSE i \in 1..(Len(s) - 1) :
         /\ s[i] = "P" /\ s[i + 1] = "T"
         /\ \A j \in 1..(i - 1) : ~(s[j] = "P" /\ s[j + 1] = "T")
  ELSE 0

\* parseDuration throws (match is null, match[1] is a TypeError)
parseDurationThrows(duration) == MatchPT(duration) = 0

\* parseDuration(duration), when it does not throw
parseDuration(duration) ==
  LET h == DurationGroup(duration, MatchPT(duration) + 2, "H")
      m == DurationGroup(duration, h.next, "M")
      s == DurationGroup(duration, m.next, "S")
  IN h.value * 3600 + m.value * 60 + s.value

\* the catalog's data of video v: contentDetails.duration and the statistics
VideoDuration(v) ==
  IF v % 2 = 1 THEN <<"P", "T", "1", "M", "3", "0", "S">> ELSE <<"P", "T", "4", "5", "S">>
VideoViewCount(v) == 100 + v
VideoLikeCount(v) == v

\* youtube.playlistItems.list({playlistId, maxResults, pageToken}): the page
\* that follows the first pageToken pages; the catalog serves at most pageCap
\* items a page, and its pages of blank carry no item and a continuation
\* token.  Item i of the playlist carries video id i and position i - 1.
playlistItemsList(cat, maxResults, pageToken) ==
  LET served == Min(maxResults, cat.pageCap)
      page == pageToken + 1
      first == served * Cardinality({k \in 1..pageToken : k \notin cat.blank})
      last == IF page \in cat.blank THEN first ELSE Min(first + served, cat.n)
  IN [items |-> [i \in 1..(last - first) |->
                   [videoId |-> first + i, position |-> first + i - 1]],
      nextPageToken |-> IF page \in cat.blank \/ last < cat.n THEN page ELSE Null]

\* arr.filter(test)
RECURSIVE Filter(_, _)
Filter(s, keep) ==
  IF s = <<>> THEN <<>>
  ELSE IF Head(s) \in keep THEN <<Head(s)>> \o Filter(Tail(s), keep)
  ELSE Filter(Tail(s), keep)

\* getVideoDetails(videoIds) on the page-th page of an ingestion: the
\* videos.list call answers for the ids it still knows; an exception of the
\* call or of parseDuration is caught and [] returned
getVideoDetails(cat, videoIds, page) ==
  LET known == Filter(videoIds, {v \in 1..cat.n : v \notin cat.missing})
  IN IF cat.failStatsAt = page
        \/ \E i \in 1..Len(known) : parseDurationThrows(VideoDuration(known[i]))
     THEN <<>>
     ELSE [i \in 1..Len(known) |->
             [id |-> known[i], duration |-> parseDuration(VideoDuration(known[i])),
              viewCount |-> VideoViewCount(known[i]),
              likeCount |-> VideoLikeCount(known[i])]]

\* the state of a getPlaylistVideos call before its first loop iteration
FetchStarted(maxResults) ==
  [status |-> "running", maxResults |-> maxResults, videos |-> <<>>,
   nextPageToken |-> Null, requests |-> 0, asked |-> 0, error |-> ""]

\* items.map(...): a playlist item combined with its video detail
CombinedVideo(item, videoDetails) ==
  LET d == FindIndex(videoDetails, LAMBDA v : v.id = item.videoId)
  IN [id |-> item.videoId, position |-> item.position,
      duration |-> IF d # 0 THEN videoDetails[d].duration ELSE 0,
      viewCount |-> IF d # 0 THEN videoDetails[d].viewCount ELSE 0,
      likeCount |-> IF d # 0 THEN videoDetails[d].likeCount ELSE 0]

\* the loop iteration without the truncation to maxResults
FetchPage_NoSplice(cat, f) ==
  LET page == f.requests + 1 IN
  IF cat.failItemsAt = page
  THEN [f EXCEPT !.status = "failed", !.videos = <<>>, !.requests = page,
                 !.asked = Min(f.maxResults, PageLimit),
                 !.error = "Failed to fetch playlist videos"]
  ELSE LET response_ == playlistItemsList(cat, Min(f.maxResults, PageLimit), f.nextPageToken)
           items == response_.items
           videoIds == [i \in 1..Len(items) |-> items[i].videoId]
           videoDetails == getVideoDetails(cat, videoIds, page)
           combinedVideos == [i \in 1..Len(items) |-> CombinedVideo(items[i], videoDetails)]
           videos == f.videos \o combinedVideos
       IN [f EXCEPT !.status = IF Len(videos) < f.maxResults
                                    /\ response_.nextPageToken # Null
                                 THEN "running" ELSE "done",
                    !.videos = videos,
                    !.nextPageToken = response_.nextPageToken, !.requests = page,
                    !.asked = Min(f.maxResults, PageLimit)]

\* the loop iteration keeping only the items that have a video detail
FetchPage_DropsUnknown(cat, f) ==
  LET page == f.requests + 1 IN
  IF cat.failItemsAt = page
  THEN [f EXCEPT !.status = "failed", !.videos = <<>>, !.requests = page,
                 !.asked = Min(f.maxResults, PageLimit),
                 !.error = "Failed to fetch playlist videos"]
  ELSE LET response_ == playlistItemsList(cat, Min(f.maxResults, PageLimit), f.nextPageToken)
           items == response_.items
           videoIds == [i \in 1..Len(items) |-> items[i].videoId]
           videoDetails == getVideoDetails(cat, videoIds, page)
           videos == f.videos \o
                       [i \in 1..Len(videoDetails) |->
                          [id |-> videoDetails[i].id, position |-> videoDetails[i].id - 1,
                           duration |-> videoDetails[i].duration,
                           viewCount |-> videoDetails[i].viewCount,
                           likeCount |-> videoDetails[i].likeCount]]
       IN IF Len(videos) >= f.maxResults
          THEN [f EXCEPT !.status = "done", !.videos = SubSeq(videos, 1, f.maxResults),
                         !.nextPageToken = response_.nextPageToken, !.requests = page,
                         !.asked = Min(f.maxResults, PageLimit)]
          ELSE [f EXCEPT !.status = IF response_.nextPageToken # Null THEN "running"
                                    ELSE "done",
                         !.videos = videos,
                         !.nextPageToken = response_.nextPageToken, !.requests = page,
                         !.asked = Min(f.maxResults, PageLimit)]

\* the loop iteration of a loop that goes on while fewer than maxResults
\* videos are held, whatever the continuation token
FetchPage_IgnoresToken(cat, f) ==
  LET page == f.requests + 1 IN
  IF cat.failItemsAt = page
  THEN [f EXCEPT !.status = "failed", !.videos = <<>>, !.requests = page,
                 !.asked = Min(f.maxResults, PageLimit),
                 !.error = "Failed to fetch playlist videos"]
  ELSE LET response_ == playlistItemsList(cat, Min(f.maxResults, PageLimit), f.nextPageToken)
           items == response_.items
           videoIds == [i \in 1..Len(items) |-> items[i].videoId]
           videoDetails == getVideoDetails(cat, videoIds, page)
           combinedVideos == [i \in 1..Len(items) |-> CombinedVideo(items[i], videoDetails)]
           videos == f.videos \o combinedVideos
       IN IF Len(videos) >= f.maxResults
          THEN [f EXCEPT !.status = "done", !.videos = SubSeq(videos, 1, f.maxResults),
                         !.nextPageToken = response_.nextPageToken, !.requests = page,
                         !.asked = Min(f.maxResults, PageLimit)]
          ELSE [f EXCEPT !.status = "running",
                         !.videos = videos,
                         !.nextPageToken = response_.nextPageToken, !.requests = page,
                         !.asked = Min(f.maxResults, PageLimit)]

\* one iteration of the do-while loop of getPlaylistVideos
FetchPage(cat, f) ==
  LET page == f.requests + 1 IN
  IF cat.failItemsAt = page
  THEN [f EXCEPT !.status = "failed", !.videos = <<>>, !.requests = page,
                 !.asked = Min(f.maxResults, PageLimit),
                 !.error = "Failed to fetch playlist videos"]
  ELSE LET response_ == playlistItemsList(cat, Min(f.maxResults, PageLimit), f.nextPageToken)
           items == response_.items
           videoIds == [i \in 1..Len(items) |-> items[i].videoId]
           videoDetails == getVideoDetails(cat, videoIds, page)
           combinedVideos == [i \in 1..Len(items) |-> CombinedVideo(items[i], videoDetails)]
           videos == f.videos \o combinedVideos
       IN IF Len(videos) >= f.maxResults
          THEN [f EXCEPT !.status = "done", !.videos = SubSeq(videos, 1, f.maxResults),
                         !.nextPageToken = response_.nextPageToken, !.requests = page,
                         !.asked = Min(f.maxResults, PageLimit)]
          ELSE [f EXCEPT !.status = IF response_.nextPageToken # Null THEN "running"
                                    ELSE "done",
                         !.videos = videos,
                         !.nextPageToken = response_.nextPageToken, !.requests = page,
                         !.asked = Min(f.maxResults, PageLimit)]

\* getPlaylistVideos(playlistId, maxResults) run to its end
RECURSIVE RunFetch(_, _)
RunFetch(cat, f) == IF f.status = "running" THEN RunFetch(cat, FetchPage(cat, f)) ELSE f

getPlaylistVideos(cat, maxResults) == RunFetch(cat, FetchStarted(maxResults))

\* the playlists of the catalog: snippet.title and the items behind them
PlaylistIds == {"PLgo1", "PLgo2", "PLc9", "PLempty", "PLsigns", "PLdown"}

PlaylistTitle(id) ==
  CASE id = "PLgo1" -> <<"G", "o", "!">>
    [] id = "PLgo2" -> <<"g", "o">>
    [] id = "PLc9" -> <<"C", " ", "9">>
    [] id = "PLempty" -> <<"t", "l", "a">>
    [] id = "PLsigns" -> <<"?", "!">>
    [] id = "PLdown" -> <<"x">>

\* a catalog serving n items in pages of pageCap, without the videos of missing
Serving(n, pageCap, missing, failItemsAt) ==
  [n |-> n, pageCap |-> pageCap, missing |-> missing, failItemsAt |-> failItemsAt,
   failStatsAt |-> 0, blank |-> {}]

PlaylistCatalog(id) ==
  CASE id = "PLgo1" -> Serving(2, PageLimit, {}, 0)
    [] id = "PLgo2" -> Serving(1, PageLimit, {}, 0)
    [] id = "PLc9" -> Serving(3, 2, {2}, 0)
    [] id = "PLempty" -> Serving(0, PageLimit, {}, 0)
    [] id = "PLsigns" -> Serving(1, PageLimit, {}, 0)
    [] id = "PLdown" -> Serving(2, PageLimit, {}, 1)

\* a playlist URL: its shape and the value of its list parameter
PlaylistUrl(form, list) == [form |-> form, list |-> list]

\* validateYouTubeUrl(url)
validateYouTubeUrl(url) == url.form \in {"playlist", "short", "watch"}

\* extractPlaylistId(url)
extractPlaylistId(url) == url.list

UpperCase == <<"A", "B", "C", "D", "E", "F", "G", "H", "I", "J", "K", "L", "M",
               "N", "O", "P", "Q", "R", "S", "T", "U", "V", "W", "X", "Y", "Z">>
LowerCase == <<"a", "b", "c", "d", "e", "f", "g", "h", "i", "j", "k", "l", "m",
               "n", "o", "p", "q", "r", "s", "t", "u", "v", "w", "x", "y", "z">>

\* str.toLowerCase(), on a sequence of characters
toLowerCase(s) ==
  [i \in 1..Len(s) |->
     IF \E k \in 1..26 : UpperCase[k] = s[i]
     THEN LowerCase[CHOOSE k \in 1..26 : UpperCase[k] = s[i]]
     ELSE s[i]]

\* [a-z0-9]
IsSlugChar(c) == IsDigit(c) \/ \E k \in 1..26 : LowerCase[k] = c

\* the rest of s after its leading characters outside [a-z0-9]
RECURSIVE DropOthers(_)
DropOthers(s) ==
  IF s # <<>> /\ ~IsSlugChar(Head(s)) THEN DropOthers(Tail(s)) ELSE s

\* str.replace(/[^a-z0-9]+/g, '-')
RECURSIVE ReplaceOthers(_)
ReplaceOthers(s) ==
  IF s = <<>> THEN <<>>
  ELSE IF IsSlugChar(Head(s)) THEN <<Head(s)>> \o ReplaceOthers(Tail(s))
  ELSE <<"-">> \o ReplaceOthers(DropOthers(s))

\* str.replace(/(^-|-$)/g, '')
TrimDashes(s) ==
  LET t == IF s # <<>> /\ Head(s) = "-" THEN Tail(s) ELSE s
  IN IF t # <<>> /\ t[Len(t)] = "-" THEN SubSeq(t, 1, Len(t) - 1) ELSE t

\* the slug of a playlist title (youtubeService.js 299-302)
Slug(title) == TrimDashes(ReplaceOthers(toLowerCase(title)))

\* createCourseFromPlaylist numbering the modules by the index of the video
createCourseFromPlaylist_ZeroBased(playlistUrl) ==
  LET playlistId == extractPlaylistId(playlistUrl)
      got == getPlaylistVideos(PlaylistCatalog(playlistId), DefaultMaxResults)
      videos == got.videos
      modules == [i \in 1..Len(videos) |->
                    [videoId |-> videos[i].id, duration |-> videos[i].duration,
                     order |-> i - 1, xpReward |-> 10]]
  IN IF got.status = "failed" THEN [success |-> FALSE, error |-> got.error]
     ELSE IF Len(videos) = 0
     THEN [success |-> FALSE, error |-> "No videos found in playlist"]
     ELSE [success |-> TRUE,
           course |->
             [title |-> PlaylistTitle(playlistId), playlistUrl |-> playlistUrl,
              playlistId |-> playlistId, modules |-> modules,
              totalModules |-> Len(modules),
              totalDuration |->
                Round(SumSeq([i \in 1..Len(videos) |-> videos[i].duration]), 60),
              totalXP |-> SumSeq([i \in 1..Len(modules) |-> modules[i].xpReward]),
              slug |-> Slug(PlaylistTitle(playlistId)),
              enrolledUsers |-> <<>>, totalEnrollments |-> 0, totalCompletions |-> 0]]

\* createCourseFromPlaylist(playlistUrl, creatorId, courseData) on a valid URL;
\* the course carries the schema defaults that new Course() adds
createCourseFromPlaylist(playlistUrl) ==
  LET playlistId == extractPlaylistId(playlistUrl)
      got == getPlaylistVideos(PlaylistCatalog(playlistId), DefaultMaxResults)
      videos == got.videos
      modules == [i \in 1..Len(videos) |->
                    [videoId |-> videos[i].id, duration |-> videos[i].duration,
                     order |-> i, xpReward |-> 10]]
  IN IF got.status = "failed" THEN [success |-> FALSE, error |-> got.error]
     ELSE IF Len(videos) = 0
     THEN [success |-> FALSE, error |-> "No videos found in playlist"]
     ELSE [success |-> TRUE,
           course |->
             [title |-> PlaylistTitle(playlistId), playlistUrl |-> playlistUrl,
              playlistId |-> playlistId, modules |-> modules,
              totalModules |-> Len(modules),
              totalDuration |->
                Round(SumSeq([i \in 1..Len(videos) |-> videos[i].duration]), 60),
              totalXP |-> SumSeq([i \in 1..Len(modules) |-> modules[i].xpReward]),
              slug |-> Slug(PlaylistTitle(playlistId)),
              enrolledUsers |-> <<>>, totalEnrollments |-> 0, totalCompletions |-> 0]]

---------------------------------------------------------------------------
(* The replies of the handlers *)

Reply(status, message) == [status |-> status, message |-> message]

NoReply == Reply(0, "")
NotEnrolled == Reply(400, "Not enrolled in this course")
AlreadyEnrolled == Reply(400, "Already enrolled in this course")
ModuleNotFound == Reply(404, "Module not found")
ProgressUpdated == Reply(200, "Progress updated successfully")
ModuleCompleted == Reply(200, "Module completed successfully")
Enrolled == Reply(200, "Successfully enrolled in course")
NoteAdded == Reply(200, "Note added successfully")
NoteFailed == Reply(400, "Failed to add note")
BookmarkAdded == Reply(200, "Bookmark added successfully")
BookmarkFailed == Reply(400, "Failed to add bookmark")
ModuleProgressNotFound == Reply(404, "Module progress not found")
NoteNotFound == Reply(404, "Note not found")
NoteDeleted == Reply(200, "Note deleted successfully")
BookmarkNotFound == Reply(404, "Bookmark not found")
BookmarkDeleted == Reply(200, "Bookmark deleted successfully")
SessionRecorded == Reply(200, "Learning session recorded successfully")
InvalidCredentials == Reply(401, "Invalid credentials")
LoginSuccessful == Reply(200, "Login successful")
ValidationFailed == Reply(400, "Validation failed")
AlreadyConverted == Reply(400, "This playlist has already been converted to a course")
CourseCreated == Reply(201, "Course created successfully")
CreateFailed == Reply(500, "Failed to create course")
\* asyncHandler hands the exception of completeModule to the error middleware
ServerError == Reply(500, "User not enrolled in this course")

---------------------------------------------------------------------------
(* Caps that keep the counters of the model finite *)

WatchTimeOf(p, moduleOrder) ==
  IF FindModuleProgress(p, moduleOrder) = 0 THEN 0
  ELSE p.moduleProgress[FindModuleProgress(p, moduleOrder)].watchTime

WatchWithinCap(u, moduleOrder, watchTime) ==
  progress[u] # NoProgress =>
    WatchTimeOf(progress[u], moduleOrder) + watchTime <= MaxWatchTime

RewardWithinCap(u) ==
  /\ users[u].totalVideosWatched < MaxVideosWatched
  /\ users[u].xp + DefaultXpReward <= MaxXP

---------------------------------------------------------------------------
(* routes/courses.js and routes/progress.js *)

\* the User document after the statistics and XP update of a completion
\* (progress.js 90-97 and 110, courses.js 340-345)
RewardUser(user, c, moduleOrder, watchTime) ==
  LET counted == [user EXCEPT !.totalVideosWatched = @ + 1,
                              !.totalWatchTime = @ + (watchTime \div 60)]
      m == FindModule(c, moduleOrder)
  IN IF m # 0 THEN addXP(counted, c.modules[m].xpReward) ELSE counted

\* POST /api/courses/:courseId/enroll
EnrollRequest(u) ==
  IF progress[u] # NoProgress
  THEN /\ response' = AlreadyEnrolled
       /\ UNCHANGED <<progress, course, users, now, nextId>>
  ELSE /\ progress' = [progress EXCEPT ![u] = NewProgress(now)]
       /\ course' = CoursePreSave(enrollUser(course, u))
       /\ users' = [users EXCEPT ![u].totalCoursesEnrolled = @ + 1]
       /\ response' = Enrolled
       /\ UNCHANGED <<now, nextId>>

\* progress.js 80-127: the watch handler once the Progress document is found
WatchEnrolled(u, moduleOrder, watchTime, isCompleted) ==
  /\ progress' = [progress EXCEPT ![u] =
         updateModuleProgress(@, moduleOrder, watchTime, isCompleted, now)]
  /\ IF ~isCompleted
     THEN /\ response' = ProgressUpdated
          /\ UNCHANGED <<course, users>>
     ELSE IF completeModuleThrows(course, u)
     THEN /\ response' = ServerError
          /\ UNCHANGED <<course, users>>
     ELSE /\ course' = CoursePreSave(completeModule(course, u, moduleOrder))
          /\ users' = [users EXCEPT ![u] =
                RewardUser(@, course', moduleOrder, watchTime)]
          /\ response' = ProgressUpdated
  /\ UNCHANGED <<now, nextId>>

\* a watch handler that creates the missing Progress document instead of
\* rejecting the request
WatchRequest_GetOrCreate(u, moduleOrder, watchTime, isCompleted) ==
  /\ WatchWithinCap(u, moduleOrder, watchTime)
  /\ isCompleted => RewardWithinCap(u)
  /\ IF progress[u] = NoProgress
     THEN /\ progress' = [progress EXCEPT ![u] =
                 updateModuleProgress(NewProgress(now), moduleOrder, watchTime,
                                      isCompleted, now)]
          /\ response' = ProgressUpdated
          /\ UNCHANGED <<course, users, now, nextId>>
     ELSE WatchEnrolled(u, moduleOrder, watchTime, isCompleted)

\* POST /api/progress/:courseId/modules/:moduleOrder/watch
WatchRequest(u, moduleOrder, watchTime, isCompleted) ==
  /\ WatchWithinCap(u, moduleOrder, watchTime)
  /\ isCompleted => RewardWithinCap(u)
  /\ IF progress[u] = NoProgress
     THEN /\ response' = NotEnrolled
          /\ UNCHANGED <<progress, course, users, now, nextId>>
     ELSE WatchEnrolled(u, moduleOrder, watchTime, isCompleted)

\* POST /api/courses/:courseId/modules/:moduleOrder/complete
CompleteRequest(u, moduleOrder) ==
  LET m == FindModule(course, moduleOrder) IN
  IF m = 0
  THEN /\ response' = ModuleNotFound
       /\ UNCHANGED <<progress, course, users, now, nextId>>
  ELSE IF progress[u] = NoProgress
  THEN /\ response' = NotEnrolled
       /\ UNCHANGED <<progress, course, users, now, nextId>>
  ELSE /\ WatchWithinCap(u, moduleOrder, course.modules[m].duration)
       /\ RewardWithinCap(u)
       /\ progress' = [progress EXCEPT ![u] =
              updateModuleProgress(@, moduleOrder, course.modules[m].duration, TRUE, now)]
       /\ IF completeModuleThrows(course, u)
          THEN /\ response' = ServerError
               /\ UNCHANGED <<course, users>>
          ELSE /\ course' = CoursePreSave(completeModule(course, u, moduleOrder))
               /\ users' = [users EXCEPT ![u] =
                     RewardUser(@, course', moduleOrder, course.modules[m].duration)]
               /\ response' = ModuleCompleted
       /\ UNCHANGED <<now, nextId>>

\* POST /api/progress/:courseId/modules/:moduleOrder/notes
AddNoteRequest(u, moduleOrder, content, timestamp) ==
  IF progress[u] = NoProgress
  THEN /\ response' = NotEnrolled
       /\ UNCHANGED <<progress, course, users, now, nextId>>
  ELSE IF ~addNoteFinds(progress[u], moduleOrder)
  THEN /\ response' = NoteFailed
       /\ UNCHANGED <<progress, course, users, now, nextId>>
  ELSE /\ nextId <= MaxIds
       /\ progress' = [progress EXCEPT ![u] =
              addNote(@, moduleOrder, content, timestamp, nextId)]
       /\ nextId' = nextId + 1
       /\ response' = NoteAdded
       /\ UNCHANGED <<course, users, now>>

\* POST /api/progress/:courseId/modules/:moduleOrder/bookmarks
AddBookmarkRequest(u, moduleOrder, timestamp, title) ==
  IF progress[u] = NoProgress
  THEN /\ response' = NotEnrolled
       /\ UNCHANGED <<progress, course, users, now, nextId>>
  ELSE IF ~addNoteFinds(progress[u], moduleOrder)
  THEN /\ response' = BookmarkFailed
       /\ UNCHANGED <<progress, course, users, now, nextId>>
  ELSE /\ nextId <= MaxIds
       /\ progress' = [progress EXCEPT ![u] =
              addBookmark(@, moduleOrder, timestamp, title, nextId)]
       /\ nextId' = nextId + 1
       /\ response' = BookmarkAdded
       /\ UNCHANGED <<course, users, now>>

\* DELETE /api/progress/:courseId/modules/:moduleOrder/notes/:noteId
DeleteNoteRequest(u, moduleOrder, noteId) ==
  IF progress[u] = NoProgress
  THEN /\ response' = NotEnrolled
       /\ UNCHANGED <<progress, course, users, now, nextId>>
  ELSE LET i == FindModuleProgress(progress[u], moduleOrder) IN
       IF i = 0
       THEN /\ response' = ModuleProgressNotFound
            /\ UNCHANGED <<progress, course, users, now, nextId>>
       ELSE LET noteIndex == FindIndex(progress[u].moduleProgress[i].notes,
                                       LAMBDA note : note.id = noteId) IN
            IF noteIndex = 0
            THEN /\ response' = NoteNotFound
                 /\ UNCHANGED <<progress, course, users, now, nextId>>
            ELSE /\ progress' = [progress EXCEPT ![u].moduleProgress[i].notes =
                                    Splice(@, noteIndex)]
                 /\ response' = NoteDeleted
                 /\ UNCHANGED <<course, users, now, nextId>>

\* DELETE /api/progress/:courseId/modules/:moduleOrder/bookmarks/:bookmarkId
DeleteBookmarkRequest(u, moduleOrder, bookmarkId) ==
  IF progress[u] = NoProgress
  THEN /\ response' = NotEnrolled
       /\ UNCHANGED <<progress, course, users, now, nextId>>
  ELSE LET i == FindModuleProgress(progress[u], moduleOrder) IN
       IF i = 0
       THEN /\ response' = ModuleProgressNotFound
            /\ UNCHANGED <<progress, course, users, now, nextId>>
       ELSE LET bookmarkIndex == FindIndex(progress[u].moduleProgress[i].bookmarks,
                                           LAMBDA bookmark : bookmark.id = bookmarkId) IN
            IF bookmarkIndex = 0
            THEN /\ response' = BookmarkNotFound
                 /\ UNCHANGED <<progress, course, users, now, nextId>>
            ELSE /\ progress' = [progress EXCEPT ![u].moduleProgress[i].bookmarks =
                                    Splice(@, bookmarkIndex)]
                 /\ response' = BookmarkDeleted
                 /\ UNCHANGED <<course, users, now, nextId>>

\* POST /api/progress/:courseId/session
SessionRequest(u, startTime, endTime, modulesWatched, xpEarned) ==
  IF progress[u] = NoProgress
  THEN /\ response' = NotEnrolled
       /\ UNCHANGED <<progress, course, users, now, nextId, activeDays>>
  ELSE /\ Len(progress[u].learningSessions) < MaxSessions
       /\ progress' = [progress EXCEPT ![u] =
              addLearningSession(@, startTime, endTime, modulesWatched, xpEarned, now)]
       /\ users' = [users EXCEPT ![u] = updateStreak(@, now)]
       /\ activeDays' = [activeDays EXCEPT ![u].account = @ \cup {DayOf(now)},
                                           ![u].course = @ \cup {DayOf(now)}]
       /\ response' = SessionRecorded
       /\ UNCHANGED <<course, now, nextId>>

\* time passes between two requests
Tick ==
  /\ now < MaxTime
  /\ now' = now + 1
  /\ UNCHANGED <<progress, course, users, nextId, response, activeDays, ingestVars, handlers>>

---------------------------------------------------------------------------
(* The progress-tracking service: a course and its registered learners *)

Init ==
  /\ progress = [u \in Users |-> NoProgress]
  /\ course = NewCourse
  /\ users = [u \in Users |-> NewUser(1)]
  /\ now = 1
  /\ nextId = 1
  /\ response = NoReply
  /\ activeDays = [u \in Users |-> [account |-> {}, course |-> {}]]
  /\ catalog = NoCatalog
  /\ fetched = NotFetched
  /\ courses = <<>>
  /\ converts = [r \in Requesters |-> Idle]
  /\ token = NoToken
  /\ parsed = NotParsed
  /\ handlers = [r \in Requesters |-> Idle]

Enroll == \E u \in Users : EnrollRequest(u) /\ UNCHANGED <<activeDays, ingestVars, handlers>>

Watch == \E u \in Users, m \in OrderInputs, w \in WatchTimes, f \in BOOLEAN :
           WatchRequest(u, m, w, f) /\ UNCHANGED <<activeDays, ingestVars, handlers>>

Complete == \E u \in Users, m \in OrderInputs :
              CompleteRequest(u, m) /\ UNCHANGED <<activeDays, ingestVars, handlers>>

Next == Enroll \/ Watch \/ Complete \/ Tick

Spec == Init /\ [][Next]_vars

---------------------------------------------------------------------------
(* The same service with the note, bookmark and session requests.  The     *)
(* watch requests carry no watch time here, which keeps the documents few. *)

Contents == {"note"}
Timestamps == {65}
Titles == {""}
NoteIds == 1..MaxIds

WatchOnly == \E u \in Users, m \in OrderInputs, f \in BOOLEAN :
               WatchRequest(u, m, 0, f) /\ UNCHANGED <<activeDays, ingestVars, handlers>>

AddNote == \E u \in Users, m \in OrderInputs, c \in Contents :
             AddNoteRequest(u, m, c, 0) /\ UNCHANGED <<activeDays, ingestVars, handlers>>

AddBookmark == \E u \in Users, m \in OrderInputs, ts \in Timestamps, t \in Titles :
                 AddBookmarkRequest(u, m, ts, t) /\ UNCHANGED <<activeDays, ingestVars, handlers>>

DeleteNote == \E u \in Users, m \in OrderInputs, id \in NoteIds :
                DeleteNoteRequest(u, m, id) /\ UNCHANGED <<activeDays, ingestVars, handlers>>

DeleteBookmark == \E u \in Users, m \in OrderInputs, id \in NoteIds :
                    DeleteBookmarkRequest(u, m, id) /\ UNCHANGED <<activeDays, ingestVars, handlers>>

Session == \E u \in Users :
             SessionRequest(u, 1, now, <<>>, DefaultXpReward) /\ UNCHANGED <<ingestVars, handlers>>

NextNotes ==
  \/ Enroll
  \/ WatchOnly
  \/ AddNote
  \/ AddBookmark
  \/ DeleteNote
  \/ DeleteBookmark
  \/ Session
  \/ Tick

SpecNotes == Init /\ [][NextNotes]_vars

---------------------------------------------------------------------------
(* The gamification engine alone: addXP called on the accounts, directly   *)
(* and by the challenge-claim route (routes/gamification.js).              *)

ChallengeClaimed == Reply(200, "Challenge reward claimed successfully")

\* the reward of POST /api/gamification/challenges/:challengeId/claim
ChallengeXpReward == 100

\* user.addXP(amount); user.save()
AddExperience(u, amount) ==
  /\ users[u].xp + amount <= MaxXP
  /\ users' = [users EXCEPT ![u] = addXP(@, amount)]
  /\ UNCHANGED <<progress, course, now, nextId, response>>

\* the reply of the claim route: xpEarned, leveledUp and newLevel of xpResult
ClaimReply(xpResult) ==
  [status |-> ChallengeClaimed.status, message |-> ChallengeClaimed.message,
   data |-> [xpEarned |-> xpResult.xpGained, leveledUp |-> xpResult.leveledUp,
             newLevel |-> xpResult.newLevel]]

\* POST /api/gamification/challenges/:challengeId/claim
ClaimRequest(u) ==
  /\ users[u].xp + ChallengeXpReward <= MaxXP
  /\ users' = [users EXCEPT ![u] = addXP(@, ChallengeXpReward)]
  /\ response' = ClaimReply(addXPResult(users[u], ChallengeXpReward))
  /\ UNCHANGED <<progress, course, now, nextId>>

AddXP == \E u \in Users, amount \in XPAmounts :
           AddExperience(u, amount) /\ UNCHANGED <<activeDays, ingestVars, handlers>>

Claim == \E u \in Users : ClaimRequest(u) /\ UNCHANGED <<activeDays, ingestVars, handlers>>

NextXP == AddXP \/ Claim

SpecXP == Init /\ [][NextXP]_vars

---------------------------------------------------------------------------
(* The streaks: logins and learning sessions over several days             *)
(* (routes/auth.js, routes/progress.js).                                   *)

StreakHorizon == 9       \* the clock of this specification runs 1..StreakHorizon

\* POST /api/auth/login
LoginRequest(u, passwordValid) ==
  IF ~passwordValid
  THEN /\ response' = InvalidCredentials
       /\ UNCHANGED <<progress, course, users, now, nextId, activeDays>>
  ELSE /\ users' = [users EXCEPT ![u] = updateStreak(@, now)]
       /\ activeDays' = [activeDays EXCEPT ![u].account = @ \cup {DayOf(now)}]
       /\ response' = LoginSuccessful
       /\ UNCHANGED <<progress, course, now, nextId>>

\* k time units pass between two requests
Pass(k) ==
  /\ now + k <= StreakHorizon
  /\ now' = now + k
  /\ UNCHANGED <<progress, course, users, nextId, response, activeDays, ingestVars, handlers>>

Login == \E u \in Users, v \in BOOLEAN : LoginRequest(u, v) /\ UNCHANGED <<ingestVars, handlers>>

Sleep == \E k \in 1..(2 * UnitsPerDay) : Pass(k)

NextStreak == Login \/ Enroll \/ Session \/ Sleep

SpecStreak == Init /\ [][NextStreak]_vars

---------------------------------------------------------------------------
(* The badge set of an account and the achievement set of a Progress       *)

BadgeNames == {"First Steps", "Week Warrior"}
BadgeDescriptions == {"", "Completed a module"}
BadgeIcons == {"star"}

\* user.addBadge(badgeName, description, icon); user.save()
AwardBadge(u, badgeName, description, icon) ==
  /\ users' = [users EXCEPT ![u] = addBadge(@, badgeName, description, icon, now)]
  /\ UNCHANGED <<progress, course, now, nextId, response>>

\* progress.addAchievement(name, description, icon); progress.save()
AwardAchievement(u, name, description, icon) ==
  /\ progress[u] # NoProgress
  /\ progress' = [progress EXCEPT ![u] = addAchievement(@, name, description, icon, now)]
  /\ UNCHANGED <<course, users, now, nextId, response>>

Badge == \E u \in Users, n \in BadgeNames, d \in BadgeDescriptions, i \in BadgeIcons :
           AwardBadge(u, n, d, i) /\ UNCHANGED <<activeDays, ingestVars, handlers>>

Achievement ==
  \E u \in Users, n \in BadgeNames, d \in BadgeDescriptions, i \in BadgeIcons :
    AwardAchievement(u, n, d, i) /\ UNCHANGED <<activeDays, ingestVars, handlers>>

NextBadges == Enroll \/ Badge \/ Achievement \/ Tick

SpecBadges == Init /\ [][NextBadges]_vars

---------------------------------------------------------------------------
(* The ingestion of one playlist: getPlaylistVideos against a catalog      *)
(* that holds n items, serves pages of at most pageCap items, has lost the *)
(* videos of missing, and fails the failItemsAt-th playlistItems call and  *)
(* the failStatsAt-th videos call (0: never).                              *)

MaxItems == 120          \* items of the longest playlist
MaxFailPage == 2         \* the latest page at which a call of the catalog fails

PlaylistSizes == {0, 1, 49, 50, 51, MaxItems}
PageCaps == {20, PageLimit}
MissingSets == {{}, {2}, {1, 50}}
MaxResultsInputs == {1, PreviewMaxResults, DefaultMaxResults, 75}

Catalogs ==
  [n : PlaylistSizes, pageCap : PageCaps, missing : MissingSets,
   failItemsAt : 0..MaxFailPage, failStatsAt : 0..MaxFailPage, blank : {{}}]

\* getPlaylistVideos is called
StartFetch(maxResults) ==
  /\ fetched = NotFetched
  /\ fetched' = FetchStarted(maxResults)
  /\ UNCHANGED <<catalog, courses, converts, token, parsed>>

\* the loop of getPlaylistVideos runs one iteration
NextPage ==
  /\ fetched # NotFetched
  /\ fetched.status = "running"
  /\ fetched' = FetchPage(catalog, fetched)
  /\ UNCHANGED <<catalog, courses, converts, token, parsed>>

InitFetch ==
  /\ progress = [u \in Users |-> NoProgress]
  /\ course = NewCourse
  /\ users = [u \in Users |-> NewUser(1)]
  /\ now = 1
  /\ nextId = 1
  /\ response = NoReply
  /\ activeDays = [u \in Users |-> [account |-> {}, course |-> {}]]
  /\ catalog \in Catalogs
  /\ fetched = NotFetched
  /\ courses = <<>>
  /\ converts = [r \in Requesters |-> Idle]
  /\ token = NoToken
  /\ parsed = NotParsed
  /\ handlers = [r \in Requesters |-> Idle]

Fetch == \E maxResults \in MaxResultsInputs :
           /\ StartFetch(maxResults)
           /\ UNCHANGED <<progress, course, users, now, nextId, response, activeDays, handlers>>

Page == NextPage /\ UNCHANGED <<progress, course, users, now, nextId, response, activeDays, handlers>>

NextFetch == Fetch \/ Page

SpecFetch == InitFetch /\ [][NextFetch]_vars

---------------------------------------------------------------------------
(* The conversion of playlists into courses (routes/courses.js 18-122).    *)
(* A convert request awaits the assembled course and the findOne lookup,   *)
(* then awaits the save; requests of other clients run in between.         *)

ConvertUrls ==
  {PlaylistUrl("playlist", id) : id \in PlaylistIds}
    \cup {PlaylistUrl("watch", "PLgo1"), PlaylistUrl("channel", "")}

\* POST /api/courses/convert, up to the lookup of the existing course
ConvertRequest(r, playlistUrl) ==
  /\ converts[r] = Idle
  /\ IF ~validateYouTubeUrl(playlistUrl)
     THEN /\ response' = ValidationFailed
          /\ UNCHANGED <<courses, converts>>
     ELSE LET result == createCourseFromPlaylist(playlistUrl) IN
          IF ~result.success
          THEN /\ response' = Reply(400, result.error)
               /\ UNCHANGED <<courses, converts>>
          ELSE IF \E i \in 1..Len(courses) : courses[i].playlistId = result.course.playlistId
          THEN /\ response' = AlreadyConverted
               /\ UNCHANGED <<courses, converts>>
          ELSE /\ converts' = [converts EXCEPT ![r] = [step |-> "save", course |-> result.course]]
               /\ UNCHANGED <<courses, response>>
  /\ UNCHANGED <<catalog, fetched, token, parsed>>

\* POST /api/courses/convert, from course.save() on
ConvertSave(r) ==
  /\ converts[r] # Idle
  /\ LET doc == CoursePreSave(converts[r].course) IN
     IF CourseInvalid(doc) \/ DuplicateKey(courses, doc)
     THEN /\ response' = CreateFailed
          /\ UNCHANGED courses
     ELSE /\ courses' = Append(courses, doc)
          /\ response' = CourseCreated
  /\ converts' = [converts EXCEPT ![r] = Idle]
  /\ UNCHANGED <<catalog, fetched, token, parsed>>

Convert == \E r \in Requesters, url \in ConvertUrls :
             /\ ConvertRequest(r, url)
             /\ UNCHANGED <<progress, course, users, now, nextId, activeDays, handlers>>

Save == \E r \in Requesters :
          /\ ConvertSave(r)
          /\ UNCHANGED <<progress, course, users, now, nextId, activeDays, handlers>>

NextConvert == Convert \/ Save

SpecConvert == Init /\ [][NextConvert]_vars

---------------------------------------------------------------------------
(* parseDuration on the duration tokens of the catalog: a token is built   *)
(* from a prefix, up to three components and a suffix.                     *)

NoComponent == -1        \* a component that the token leaves out

Digits == <<"0", "1", "2", "3", "4", "5", "6", "7", "8", "9">>

\* the decimal digits of n < 100
Decimal(n) ==
  IF n < 10 THEN <<Digits[n + 1]>> ELSE <<Digits[(n \div 10) + 1], Digits[(n % 10) + 1]>>

\* a component of a token: its number and its unit letter, or nothing
Component(n, unit) == IF n = NoComponent THEN <<>> ELSE Decimal(n) \o <<unit>>

TokenPrefixes == {<<"P", "T">>, <<"P">>, <<>>}
TokenSuffixes == {<<>>, <<"X">>, <<"7">>}
TokenNumbers == {NoComponent, 0, 5, 30}

Tokens ==
  [prefix : TokenPrefixes, hours : TokenNumbers, minutes : TokenNumbers,
   seconds : TokenNumbers, suffix : TokenSuffixes]

\* contentDetails.duration: the text of a token
TokenText(t) ==
  t.prefix \o Component(t.hours, "H") \o Component(t.minutes, "M")
    \o Component(t.seconds, "S") \o t.suffix

\* this.parseDuration(video.contentDetails.duration)
ParseToken ==
  /\ parsed = NotParsed
  /\ parsed' = IF parseDurationThrows(TokenText(token))
               THEN [threw |-> TRUE, seconds |-> 0]
               ELSE [threw |-> FALSE, seconds |-> parseDuration(TokenText(token))]
  /\ UNCHANGED <<catalog, fetched, courses, converts, token>>

InitDuration ==
  /\ progress = [u \in Users |-> NoProgress]
  /\ course = NewCourse
  /\ users = [u \in Users |-> NewUser(1)]
  /\ now = 1
  /\ nextId = 1
  /\ response = NoReply
  /\ activeDays = [u \in Users |-> [account |-> {}, course |-> {}]]
  /\ catalog = NoCatalog
  /\ fetched = NotFetched
  /\ courses = <<>>
  /\ converts = [r \in Requesters |-> Idle]
  /\ token \in Tokens
  /\ parsed = NotParsed
  /\ handlers = [r \in Requesters |-> Idle]

Parse ==
  /\ ParseToken
  /\ UNCHANGED <<progress, course, users, now, nextId, response, activeDays, handlers>>

NextDuration == Parse

SpecDuration == InitDuration /\ [][NextDuration]_vars

---------------------------------------------------------------------------
(* The enroll and watch handlers step by step.  A handler gives up         *)
(* control at every await: Course.findById, Progress.findOne,              *)
(* progress.save, course.save, User.findById, user.save.  One action is    *)
(* one of these storage operations together with the synchronous code      *)
(* that follows it; the steps of the requests in flight interleave.        *)
(* Course.findById is the step that starts the request.                    *)

NoAccount == [none |-> TRUE]     \* User.findById not reached yet

DuplicateProgress == Reply(500, "E11000 duplicate key error")

\* a request after Course.findById has answered with course document c
Request(kind, u, moduleOrder, watchTime, isCompleted, c) ==
  [step |-> "findProgress", kind |-> kind, user |-> u, moduleOrder |-> moduleOrder,
   watchTime |-> watchTime, isCompleted |-> isCompleted, course |-> c,
   progress |-> NoProgress, account |-> NoAccount, written |-> {}, counted |-> FALSE]

\* the reply that ends the request of handler r
Finish(r, reply) ==
  /\ handlers' = [handlers EXCEPT ![r] = Idle]
  /\ response' = reply

\* the request of handler r goes on with the fields of h
Continue(r, h) ==
  /\ handlers' = [handlers EXCEPT ![r] = h]
  /\ UNCHANGED response

\* save() with an atomic $inc of the counter in place of the value held in memory
WriteBack_AtomicIncrement(stored, read, mine) ==
  [mine EXCEPT !.completedModules =
                  stored.completedModules + (mine.completedModules - read.completedModules)]

\* the stored document after save() of the document mine, which the handler
\* read as read while the store now holds stored: the handler's copy is
\* written back, no version is compared
WriteBack(stored, read, mine) == mine

\* POST /:courseId/enroll up to Course.findById (courses.js 225-248)
BeginEnroll(r, u) ==
  /\ handlers[r] = Idle
  /\ Continue(r, Request("enroll", u, 0, 0, FALSE, course))
  /\ UNCHANGED <<progress, course, users, now, nextId>>

\* POST /:courseId/modules/:moduleOrder/watch up to Course.findById
\* (progress.js 47-66)
BeginWatch(r, u, moduleOrder, watchTime, isCompleted) ==
  /\ handlers[r] = Idle
  /\ isCompleted => users[u].totalVideosWatched < MaxVideosWatched
  /\ Continue(r, Request("watch", u, moduleOrder, watchTime, isCompleted, course))
  /\ UNCHANGED <<progress, course, users, now, nextId>>

\* Progress.findOne answers (courses.js 250-260; progress.js 68-78)
FindProgress(r) ==
  /\ handlers[r] # Idle
  /\ handlers[r].step = "findProgress"
  /\ LET h == handlers[r]
         found == progress[h.user]
     IN IF h.kind = "enroll"
        THEN IF found # NoProgress
             THEN Finish(r, AlreadyEnrolled)
             ELSE Continue(r, [h EXCEPT !.step = "saveProgress"])
        ELSE IF found = NoProgress
             THEN Finish(r, NotEnrolled)
             ELSE Continue(r, [h EXCEPT !.step = "saveProgress", !.progress = found])
  /\ UNCHANGED <<progress, course, users, now, nextId>>

\* progress.save() is applied (courses.js 263-269; progress.js 80-82)
SaveProgress(r) ==
  /\ handlers[r] # Idle
  /\ handlers[r].step = "saveProgress"
  /\ LET h == handlers[r] IN
     IF h.kind = "enroll"
     THEN IF progress[h.user] # NoProgress
          THEN /\ Finish(r, DuplicateProgress)
               /\ UNCHANGED progress
          ELSE /\ progress' = [progress EXCEPT ![h.user] = NewProgress(now)]
               /\ Continue(r, [h EXCEPT !.step = "saveCourse",
                                        !.written = @ \cup {"progress"}])
     ELSE LET mine == updateModuleProgress(h.progress, h.moduleOrder, h.watchTime,
                                           h.isCompleted, now)
          IN /\ WatchTimeOf(h.progress, h.moduleOrder) + h.watchTime <= MaxWatchTime
             /\ progress' = [progress EXCEPT ![h.user] =
                               WriteBack(progress[h.user], h.progress, mine)]
             /\ IF h.isCompleted
                THEN Continue(r, [h EXCEPT
                       !.step = "saveCourse", !.progress = mine,
                       !.written = @ \cup {"progress"},
                       !.counted = mine.completedModules > h.progress.completedModules])
                ELSE Finish(r, ProgressUpdated)
  /\ UNCHANGED <<course, users, now, nextId>>

\* course.enrollUser / course.completeModule runs and course.save() is
\* applied (courses.js 271-273; progress.js 85-87)
SaveCourse(r) ==
  /\ handlers[r] # Idle
  /\ handlers[r].step = "saveCourse"
  /\ LET h == handlers[r] IN
     IF h.kind = "enroll"
     THEN /\ course' = CoursePreSave(enrollUser(h.course, h.user))
          /\ Continue(r, [h EXCEPT !.step = "findUser", !.course = course',
                                   !.written = @ \cup {"course"}])
     ELSE IF completeModuleThrows(h.course, h.user)
     THEN /\ Finish(r, ServerError)
          /\ UNCHANGED course
     ELSE /\ course' = CoursePreSave(completeModule(h.course, h.user, h.moduleOrder))
          /\ Continue(r, [h EXCEPT !.step = "findUser", !.course = course',
                                   !.written = @ \cup {"course"}])
  /\ UNCHANGED <<progress, users, now, nextId>>

\* User.findById answers (courses.js 275-276; progress.js 89-90)
FindUser(r) ==
  /\ handlers[r] # Idle
  /\ handlers[r].step = "findUser"
  /\ Continue(r, [handlers[r] EXCEPT !.step = "saveUser",
                                     !.account = users[handlers[r].user]])
  /\ UNCHANGED <<progress, course, users, now, nextId>>

\* user.save() is applied and the handler replies (courses.js 277-287;
\* progress.js 91-118)
SaveUser(r) ==
  /\ handlers[r] # Idle
  /\ handlers[r].step = "saveUser"
  /\ LET h == handlers[r] IN
     IF h.kind = "enroll"
     THEN /\ users' = [users EXCEPT ![h.user] =
                         [h.account EXCEPT !.totalCoursesEnrolled = @ + 1]]
          /\ Finish(r, Enrolled)
     ELSE /\ users' = [users EXCEPT ![h.user] =
                         RewardUser(h.account, h.course, h.moduleOrder, h.watchTime)]
          /\ Finish(r, ProgressUpdated)
  /\ UNCHANGED <<progress, course, now, nextId>>

EnrollBegins == \E r \in Requesters, u \in Users :
                  BeginEnroll(r, u) /\ UNCHANGED <<activeDays, ingestVars>>

WatchBegins == \E r \in Requesters, u \in Users, m \in 1..TotalModules, f \in BOOLEAN :
                 BeginWatch(r, u, m, 0, f) /\ UNCHANGED <<activeDays, ingestVars>>

ProgressFound == \E r \in Requesters : FindProgress(r) /\ UNCHANGED <<activeDays, ingestVars>>

ProgressSaved == \E r \in Requesters : SaveProgress(r) /\ UNCHANGED <<activeDays, ingestVars>>

CourseSaved == \E r \in Requesters : SaveCourse(r) /\ UNCHANGED <<activeDays, ingestVars>>

UserFound == \E r \in Requesters : FindUser(r) /\ UNCHANGED <<activeDays, ingestVars>>

UserSaved == \E r \in Requesters : SaveUser(r) /\ UNCHANGED <<activeDays, ingestVars>>

NextRace ==
  \/ EnrollBegins
  \/ WatchBegins
  \/ ProgressFound
  \/ ProgressSaved
  \/ CourseSaved
  \/ UserFound
  \/ UserSaved

SpecRace == Init /\ [][NextRace]_vars

---------------------------------------------------------------------------
(* The paging loop of getPlaylistVideos against catalogs that also serve   *)
(* pages without items.                                                    *)

MaxBlankPage == 2        \* the latest page that carries no item

PagingSizes == {0, 1, 51, MaxItems}

PagingCatalogs ==
  [n : PagingSizes, pageCap : PageCaps, missing : {{}},
   failItemsAt : 0..MaxFailPage, failStatsAt : {0}, blank : SUBSET (1..MaxBlankPage)]

InitPaging ==
  /\ progress = [u \in Users |-> NoProgress]
  /\ course = NewCourse
  /\ users = [u \in Users |-> NewUser(1)]
  /\ now = 1
  /\ nextId = 1
  /\ response = NoReply
  /\ activeDays = [u \in Users |-> [account |-> {}, course |-> {}]]
  /\ catalog \in PagingCatalogs
  /\ fetched = NotFetched
  /\ courses = <<>>
  /\ converts = [r \in Requesters |-> Idle]
  /\ token = NoToken
  /\ parsed = NotParsed
  /\ handlers = [r \in Requesters |-> Idle]

SpecPaging == InitPaging /\ [][NextFetch]_vars

---------------------------------------------------------------------------
(* A learner completing modules through the watch route, as many times as   *)
(* the course has module orders to send                                     *)

MaxCompletions == 3      \* completing watch requests of one learner

\* POST /api/progress/:courseId/modules/:moduleOrder/watch with isCompleted true
CompletingWatchRequest(u, moduleOrder, watchTime) ==
  /\ WatchWithinCap(u, moduleOrder, watchTime)
  /\ users[u].totalVideosWatched < MaxCompletions
  /\ users[u].xp + DefaultXpReward <= MaxXP
  /\ IF progress[u] = NoProgress
     THEN /\ response' = NotEnrolled
          /\ UNCHANGED <<progress, course, users, now, nextId>>
     ELSE WatchEnrolled(u, moduleOrder, watchTime, TRUE)

CompletingWatch == \E u \in Users, m \in OrderInputs, w \in WatchTimes :
                     /\ CompletingWatchRequest(u, m, w)
                     /\ UNCHANGED <<activeDays, ingestVars, handlers>>

NextCompletions == Enroll \/ CompletingWatch

SpecCompletions == Init /\ [][NextCompletions]_vars

---------------------------------------------------------------------------
(* Properties *)

Enrolled_(u) == progress[u] # NoProgress

\* the number of sub-records of p with isCompleted = true
CompletedCount(p) == CountIf(p.moduleProgress, LAMBDA mp : mp.isCompleted)

\* the orders of the sub-records of p with isCompleted = true
CompletedOrders(p) ==
  {p.moduleProgress[i].moduleOrder : i \in {j \in 1..Len(p.moduleProgress) :
                                             p.moduleProgress[j].isCompleted}}

\* C1: after every recordWatch on an enrolled learner's Progress,
\* overallProgress = round(100 * completedCount / totalModules), with
\* totalModules the number of modules of the course.
C1_ProgressOverCourseModules ==
  \A u \in Users :
    Enrolled_(u) =>
      progress[u].overallProgress =
        Percent(CompletedCount(progress[u]), course.totalModules)

\* C2: in a course of 2 modules, a Progress holding only module 1, completed,
\* is at 50 and not course-completed, and one holding modules 1 and 2, both
\* completed, is at 100 and course-completed; a Progress is course-completed
\* only when every module 1..totalModules is completed.
C2_CourseCompletion ==
  \A u \in Users :
    Enrolled_(u) =>
      LET p == progress[u] IN
      /\ p.isCompleted => (1..course.totalModules) \subseteq CompletedOrders(p)
      /\ (course.totalModules = 2 /\ Len(p.moduleProgress) = 1
            /\ CompletedOrders(p) = {1})
           => (p.overallProgress = 50 /\ ~p.isCompleted)
      /\ (course.totalModules = 2 /\ Len(p.moduleProgress) = 2
            /\ CompletedOrders(p) = {1, 2})
           => (p.overallProgress = 100 /\ p.isCompleted)

IsCompletedIn(p, moduleOrder) ==
  /\ FindModuleProgress(p, moduleOrder) # 0
  /\ p.moduleProgress[FindModuleProgress(p, moduleOrder)].isCompleted

CompletedAtOf(p, moduleOrder) ==
  p.moduleProgress[FindModuleProgress(p, moduleOrder)].completedAt

\* a recordWatch(moduleOrder, _, true) by an enrolled learner: the watch route,
\* or the complete route on a module of the course
CompletingCall(u, moduleOrder) ==
  /\ Enrolled_(u)
  /\ \/ \E w \in WatchTimes : WatchRequest(u, moduleOrder, w, TRUE)
     \/ FindModule(course, moduleOrder) # 0 /\ CompleteRequest(u, moduleOrder)

\* C3: completedModules is incremented exactly once per module order, on the
\* first recordWatch with completedFlag = true; a later such call leaves the
\* counter and the module's completedAt unchanged; so completedModules always
\* equals the number of sub-records with isCompleted = true.
C3_CountedOnce ==
  /\ [](\A u \in Users :
          Enrolled_(u) => progress[u].completedModules = CompletedCount(progress[u]))
  /\ [][\A u \in Users, m \in OrderInputs :
          CompletingCall(u, m) =>
            IF IsCompletedIn(progress[u], m)
            THEN /\ progress'[u].completedModules = progress[u].completedModules
                 /\ CompletedAtOf(progress'[u], m) = CompletedAtOf(progress[u], m)
            ELSE /\ progress'[u].completedModules = progress[u].completedModules + 1
                 /\ CompletedAtOf(progress'[u], m) = now]_vars

\* a module completed at time 1 was completed again later, and rewarded twice
C3_Witness ==
  \E u \in Users :
    /\ Enrolled_(u)
    /\ Len(progress[u].moduleProgress) = 1
    /\ progress[u].moduleProgress[1].isCompleted
    /\ progress[u].moduleProgress[1].completedAt = 1
    /\ progress[u].completedModules = 1
    /\ users[u].totalVideosWatched = 2
    /\ now = 2

\* C4: isCompleted, once true, is never false again, and the course-level
\* completedAt is written once: no later step changes it.
C4_CompletionSticky ==
  /\ [](\A u \in Users :
          Enrolled_(u) => (progress[u].isCompleted <=> progress[u].completedAt # Null))
  /\ [][\A u \in Users :
          (Enrolled_(u) /\ progress[u].isCompleted) =>
            /\ progress'[u] # NoProgress
            /\ progress'[u].isCompleted
            /\ progress'[u].completedAt = progress[u].completedAt]_vars

\* a course completed at time 1 in which a module was watched at time 2
C4_Witness ==
  \E u \in Users :
    /\ Enrolled_(u)
    /\ progress[u].isCompleted
    /\ progress[u].completedAt = 1
    /\ \E i \in 1..Len(progress[u].moduleProgress) :
         progress[u].moduleProgress[i].completedAt = 2

\* C5: a module sub-record, once initialized, is never removed, and once
\* completed never becomes not-completed, whatever request is served.
C5_ModuleMonotonic ==
  [][\A u \in Users :
       Enrolled_(u) =>
         /\ progress'[u] # NoProgress
         /\ Len(progress'[u].moduleProgress) >= Len(progress[u].moduleProgress)
         /\ \A i \in 1..Len(progress[u].moduleProgress) :
              /\ progress'[u].moduleProgress[i].moduleOrder =
                   progress[u].moduleProgress[i].moduleOrder
              /\ progress[u].moduleProgress[i].isCompleted =>
                   progress'[u].moduleProgress[i].isCompleted]_vars

\* a note was deleted from a Progress that holds a completed module and a
\* module in progress
C5_Witness ==
  /\ response = NoteDeleted
  /\ \E u \in Users :
       /\ Enrolled_(u)
       /\ \E i, j \in 1..Len(progress[u].moduleProgress) :
            /\ progress[u].moduleProgress[i].isCompleted
            /\ ~progress[u].moduleProgress[j].isCompleted

\* a recordWatch(moduleOrder, watchTime, flag) call of the watch route that
\* reaches the Progress
WatchCall(u, moduleOrder, watchTime, flag) ==
  Enrolled_(u) /\ WatchRequest(u, moduleOrder, watchTime, flag)

\* the recordWatch(moduleOrder, duration, true) call of the complete route
CompleteCall(u, moduleOrder) ==
  /\ Enrolled_(u)
  /\ FindModule(course, moduleOrder) # 0
  /\ CompleteRequest(u, moduleOrder)

\* the watch time the complete route adds to a module of the course
DurationOf(moduleOrder) == course.modules[FindModule(course, moduleOrder)].duration

\* C6: no recordWatch call with completedFlag = true lowers overallProgress.
C6_ProgressMonotone ==
  [][\A u \in Users, m \in OrderInputs :
       ((\E w \in WatchTimes : WatchCall(u, m, w, TRUE)) \/ CompleteCall(u, m)) =>
         progress'[u].overallProgress >= progress[u].overallProgress]_vars

\* the course was completed at time 2 by a call that raised the progress of a
\* Progress holding a module completed at time 1
C6_Witness ==
  \E u \in Users :
    /\ Enrolled_(u)
    /\ progress[u].overallProgress = 100
    /\ progress[u].completedAt = 2
    /\ \E i \in 1..Len(progress[u].moduleProgress) :
         progress[u].moduleProgress[i].completedAt = 1

\* the module's watchTime grew by delta and no other module's watchTime changed
AddsWatchTime(u, moduleOrder, delta) ==
  /\ WatchTimeOf(progress'[u], moduleOrder) = WatchTimeOf(progress[u], moduleOrder) + delta
  /\ \A o \in OrderInputs \ {moduleOrder} :
       WatchTimeOf(progress'[u], o) = WatchTimeOf(progress[u], o)

\* C7: every recordWatch call adds its delta to the module's watchTime and
\* leaves the other modules' watchTime alone; no step lowers a watchTime.
C7_WatchTimeAdditive ==
  [][\A u \in Users, m \in OrderInputs :
       /\ \A w \in WatchTimes, f \in BOOLEAN :
            WatchCall(u, m, w, f) => AddsWatchTime(u, m, w)
       /\ CompleteCall(u, m) => AddsWatchTime(u, m, DurationOf(m))
       /\ Enrolled_(u) =>
            /\ progress'[u] # NoProgress
            /\ WatchTimeOf(progress'[u], m) >= WatchTimeOf(progress[u], m)]_vars

\* two watch calls of 30 seconds on a module that is not completed
C7_Witness ==
  \E u \in Users :
    /\ Enrolled_(u)
    /\ \E i \in 1..Len(progress[u].moduleProgress) :
         /\ progress[u].moduleProgress[i].watchTime = 60
         /\ ~progress[u].moduleProgress[i].isCompleted

\* a watch or complete request of a learner without a Progress document
UnenrolledCall(u, moduleOrder) ==
  /\ ~Enrolled_(u)
  /\ \/ \E w \in WatchTimes, f \in BOOLEAN : WatchRequest(u, moduleOrder, w, f)
     \/ CompleteRequest(u, moduleOrder)

C9_EnrollmentWellFormed ==
  LET e == course.enrolledUsers IN
  /\ \A i, j \in 1..Len(e) : e[i].user = e[j].user => i = j
  /\ \A i \in 1..Len(e) :
       /\ \A a, b \in 1..Len(e[i].completedModules) :
            e[i].completedModules[a] = e[i].completedModules[b] => a = b
       /\ \A a \in 1..Len(e[i].completedModules) :
            e[i].completedModules[a] \in 1..course.totalModules

\* C10: the stored level is floor(sqrt(xp / 100)) + 1:
\* (level - 1)^2 * 100 <= xp < level^2 * 100; 99 gives 1 and 100 gives 2.
C10_LevelFormula ==
  \A u \in Users :
    /\ (users[u].level - 1) * (users[u].level - 1) * 100 <= users[u].xp
    /\ users[u].xp < users[u].level * users[u].level * 100
    /\ users[u].xp = 99 => users[u].level = 1
    /\ users[u].xp = 100 => users[u].level = 2

\* an account that reached exactly 100 points and level 2
C10_Witness == \E u \in Users : users[u].xp = 100 /\ users[u].level = 2

\* the level of x points: the l with (l - 1)^2 * 100 <= x < l^2 * 100
LevelOf(x) ==
  CHOOSE l \in 1..(x \div 100 + 1) : (l - 1) * (l - 1) * 100 <= x /\ x < l * l * 100

\* the report r of an addXP call that turned the account from user into user_
ReportsLevelUp(r, user, user_) ==
  /\ r.leveledUp <=> LevelOf(user_.xp) > user.level
  /\ r.leveledUp => r.newLevel = LevelOf(user_.xp) /\ user_.level = r.newLevel
  /\ ~r.leveledUp => user_.level = user.level

\* C11: the stored level never decreases; an addXP call reports leveledUp = true
\* with the new level exactly when the recomputed level exceeds the level
\* stored before the call, and otherwise reports leveledUp = false and leaves
\* the stored level unchanged.
C11_LevelUpReported ==
  [][\A u \in Users :
       /\ users'[u].level >= users[u].level
       /\ \A amount \in XPAmounts :
            AddExperience(u, amount) =>
              ReportsLevelUp(addXPResult(users[u], amount), users[u], users'[u])
       /\ ClaimRequest(u) =>
            ReportsLevelUp(response'.data, users[u], users'[u])]_vars

\* a claim that did not level up an account that had leveled up before
C11_Witness ==
  /\ "data" \in DOMAIN response
  /\ ~response.data.leveledUp
  /\ \E u \in Users : users[u].level = 2 /\ users[u].xp = 300

\* the whole-day difference between time t and an earlier time last
WholeDays(t, last) ==
  CHOOSE d \in 0..t : d * UnitsPerDay <= t - last /\ t - last < (d + 1) * UnitsPerDay

\* the streak rule, from <<current, longest, last>> to <<current_, longest_, last_>>
\* by a call at time t
StreakRule(t, current, longest, last, current_, longest_, last_) ==
  LET d == WholeDays(t, last) IN
  /\ d = 1 => /\ current_ = current + 1
              /\ longest_ = IF current_ > longest THEN current_ ELSE longest
  /\ d > 1 => current_ = 1
  /\ d = 0 => current_ = current /\ longest_ = longest
  /\ longest_ >= longest
  /\ last_ = t

AccountStreakRule(u) ==
  StreakRule(now, users[u].streak.current, users[u].streak.longest,
             users[u].streak.lastActivity, users'[u].streak.current,
             users'[u].streak.longest, users'[u].streak.lastActivity)

CourseStreakRule(u) ==
  StreakRule(now, progress[u].currentStreak, progress[u].longestStreak,
             progress[u].lastActivityDate, progress'[u].currentStreak,
             progress'[u].longestStreak, progress'[u].lastActivityDate)

\* a session request that reaches addLearningSession and user.updateStreak
SessionCall(u) ==
  Enrolled_(u) /\ SessionRequest(u, 1, now, <<>>, DefaultXpReward)

\* C12: updateStreak at time now, with d the whole-day difference to the stored
\* lastActivityDate: d = 1 increments currentStreak and raises longestStreak if
\* exceeded, d > 1 sets currentStreak to 1, d = 0 leaves both unchanged; in all
\* cases lastActivityDate becomes now.  Account-level and course-level streak.
C12_StreakRule ==
  [][\A u \in Users :
       /\ LoginRequest(u, TRUE) => AccountStreakRule(u)
       /\ SessionCall(u) => AccountStreakRule(u) /\ CourseStreakRule(u)]_vars

\* an account whose streak reached 2 and was reset, beside a course streak of 2
C12_Witness ==
  \E u \in Users :
    /\ users[u].streak.current = 1
    /\ users[u].streak.longest = 2
    /\ Enrolled_(u)
    /\ progress[u].currentStreak = 2
    /\ progress[u].longestStreak = 2

\* the length of the run of consecutive days of S that ends on its latest day
RunLength(S) ==
  LET last == CHOOSE d \in S : \A e \in S : e <= d
  IN Cardinality({d \in S : \A e \in d..last : e \in S})

\* C13: after any sequence of updateStreak calls, currentStreak is the length
\* of the run of consecutive calendar days, ending on the day of the latest
\* call, on each of which a call was made.
C13_StreakIsDayRun ==
  \A u \in Users :
    /\ activeDays[u].account # {} =>
         users[u].streak.current = RunLength(activeDays[u].account)
    /\ (Enrolled_(u) /\ activeDays[u].course # {}) =>
         progress[u].currentStreak = RunLength(activeDays[u].course)

\* no two entries of the list s carry the same name
UniqueNames(s) == \A i, j \in 1..Len(s) : s[i].name = s[j].name => i = j

\* the list s_ is s followed by one entry named name and stamped t
Inserted(s, s_, name, t) ==
  /\ Len(s_) = Len(s) + 1
  /\ \A i \in 1..Len(s) : s_[i] = s[i]
  /\ s_[Len(s_)].name = name
  /\ s_[Len(s_)].earnedAt = t

\* an award of name: inserted, and true returned, exactly when the name is new
AwardedOnce(s, s_, name, returned) ==
  IF \E i \in 1..Len(s) : s[i].name = name
  THEN ~returned /\ s_ = s
  ELSE returned /\ Inserted(s, s_, name, now)

\* C14: awardBadge inserts a badge only if none of that name exists and
\* returns true exactly when it inserted; the badge set and the achievement
\* set never hold two entries of one name, and a repeated award leaves the
\* earlier entry and its earnedAt unchanged.
C14_AwardIdempotent ==
  /\ [](\A u \in Users :
          /\ UniqueNames(users[u].badges)
          /\ Enrolled_(u) => UniqueNames(progress[u].achievements))
  /\ [][\A u \in Users, n \in BadgeNames, d \in BadgeDescriptions, i \in BadgeIcons :
          /\ AwardBadge(u, n, d, i) =>
               AwardedOnce(users[u].badges, users'[u].badges, n,
                           addBadgeReturns(users[u], n))
          /\ AwardAchievement(u, n, d, i) =>
               AwardedOnce(progress[u].achievements, progress'[u].achievements, n,
                           addAchievementReturns(progress[u], n))]_vars

\* both badges awarded, the first at time 1, and an achievement awarded at time
\* 1 still alone at time 2
C14_Witness ==
  \E u \in Users :
    /\ now = 2
    /\ Len(users[u].badges) = 2
    /\ users[u].badges[1].earnedAt = 1
    /\ users[u].badges[2].earnedAt = 2
    /\ Enrolled_(u)
    /\ Len(progress[u].achievements) = 1
    /\ progress[u].achievements[1].earnedAt = 1

\* a getPlaylistVideos call has returned its list
Returned == fetched # NotFetched /\ fetched.status = "done"

\* C15: getPlaylistVideos(playlistId, maxResults) on a playlist of N items
\* returns the first min(N, maxResults) items in playlist order, whatever the
\* page boundaries; 120 items with maxResults = 50 give 50 videos, 1..50.
C15_FirstItemsInOrder ==
  Returned =>
    /\ Len(fetched.videos) = Min(catalog.n, fetched.maxResults)
    /\ \A i \in 1..Len(fetched.videos) :
         fetched.videos[i].id = i /\ fetched.videos[i].position = i - 1
    /\ (catalog.n = 120 /\ fetched.maxResults = 50) =>
         [i \in 1..Len(fetched.videos) |-> fetched.videos[i].id] = [i \in 1..50 |-> i]

\* 120 items fetched in pages of 20 with maxResults = 50: cut in the third page
C15_Witness ==
  /\ Returned
  /\ catalog.n = 120
  /\ fetched.maxResults = 50
  /\ fetched.requests = 3
  /\ Len(fetched.videos) = 50

\* the page of the ingestion that carried the i-th playlist item
PageOfItem(i) ==
  (i - 1) \div Min(Min(fetched.maxResults, PageLimit), catalog.pageCap) + 1

\* C16: an item whose video is absent from the statistics response is kept
\* with duration 0, viewCount 0 and likeCount 0: the returned items are the
\* playlist items, in order, none dropped.
C16_MissingKeptAsZero ==
  (fetched # NotFetched /\ fetched.status # "failed") =>
    \A i \in 1..Len(fetched.videos) :
      /\ fetched.videos[i].id = i
      /\ i \in catalog.missing =>
           /\ fetched.videos[i].duration = 0
           /\ fetched.videos[i].viewCount = 0
           /\ fetched.videos[i].likeCount = 0
      /\ (i \notin catalog.missing /\ catalog.failStatsAt # PageOfItem(i)) =>
           /\ fetched.videos[i].duration > 0
           /\ fetched.videos[i].viewCount = VideoViewCount(i)
           /\ fetched.videos[i].likeCount = VideoLikeCount(i)

\* 50 videos returned of which the first and the last are missing
C16_Witness ==
  /\ Returned
  /\ catalog.missing = {1, 50}
  /\ Len(fetched.videos) = 50
  /\ fetched.videos[1].duration = 0
  /\ fetched.videos[2].duration = 45
  /\ fetched.videos[49].duration = 90
  /\ fetched.videos[50].duration = 0

\* a call of the catalog has failed during the ingestion
CatalogFailed ==
  /\ fetched # NotFetched
  /\ \/ catalog.failItemsAt \in 1..fetched.requests
     \/ catalog.failStatsAt \in 1..fetched.requests

\* C17: if a call of the catalog fails during an ingestion, playlist-items or
\* statistics, getPlaylistVideos fails and returns no list.
C17_FailureNoPartialList ==
  CatalogFailed =>
    /\ fetched.status = "failed"
    /\ fetched.videos = <<>>

\* the number of videos an ingestion of playlist id hands to course assembly
IngestedCount(id) == Min(PlaylistCatalog(id).n, DefaultMaxResults)

\* total is sum / 60 rounded to the nearest integer, half up
RoundedMinutes(total, sum) == 60 * total - 30 <= sum /\ sum < 60 * total + 30

\* C18: every persisted course assembled from N >= 1 videos has N modules with
\* orders 1..N in playlist order, totalModules = N, totalXP the sum of the
\* module rewards (10 each) and totalDuration = round(sum of durations / 60);
\* an empty video list produces no course.
C18_AssembledCourse ==
  \A k \in 1..Len(courses) :
    LET c == courses[k]
        N == IngestedCount(c.playlistId)
    IN /\ N >= 1
       /\ Len(c.modules) = N
       /\ \A i \in 1..N :
            /\ c.modules[i].order = i
            /\ c.modules[i].videoId = i
            /\ c.modules[i].xpReward = 10
       /\ c.totalModules = N
       /\ c.totalXP = 10 * N
       /\ RoundedMinutes(c.totalDuration,
                         SumSeq([i \in 1..N |-> c.modules[i].duration]))

\* the three-video playlist (one video missing) and the one-video playlist
\* were converted, and the empty playlist was refused
C18_Witness ==
  /\ response = Reply(400, "No videos found in playlist")
  /\ \E k \in 1..Len(courses) :
       /\ courses[k].playlistId = "PLc9"
       /\ Len(courses[k].modules) = 3
       /\ courses[k].totalDuration = 3
  /\ \E k \in 1..Len(courses) :
       /\ courses[k].playlistId = "PLgo2"
       /\ courses[k].totalDuration = 2

\* course c shares its slug or its playlist id with a course of coll
Clashes(coll, c) ==
  \E i \in 1..Len(coll) : coll[i].slug = c.slug \/ coll[i].playlistId = c.playlistId

\* C19: no two courses share a slug or a source playlist id; a convert
\* request whose playlist id or slug equals that of an existing course is
\* rejected, creates no course and leaves the existing courses unchanged,
\* however the convert requests interleave.
C19_UniqueSlugAndPlaylist ==
  /\ [](\A i, j \in 1..Len(courses) :
          (courses[i].slug = courses[j].slug
             \/ courses[i].playlistId = courses[j].playlistId) => i = j)
  /\ [][/\ Len(courses') >= Len(courses)
        /\ \A i \in 1..Len(courses) : courses'[i] = courses[i]
        /\ \A r \in Requesters :
             (converts[r] # Idle /\ ConvertSave(r)
                /\ Clashes(courses, converts[r].course)) =>
               (courses' = courses /\ response' = CreateFailed)
        /\ \A r \in Requesters, url \in ConvertUrls :
             (validateYouTubeUrl(url) /\ ConvertRequest(r, url)
                /\ \E i \in 1..Len(courses) :
                     courses[i].playlistId = extractPlaylistId(url)) =>
               (courses' = courses /\ converts'[r] = Idle
                  /\ response'.status = 400)]_vars

\* the save of a second course was refused while the only course is the one
\* of the playlist titled "go"
C19_Witness ==
  /\ response = CreateFailed
  /\ Len(courses) = 1
  /\ courses[1].playlistId = "PLgo2"
  /\ courses[1].slug = <<"g", "o">>
  /\ \A r \in Requesters : converts[r] = Idle

\* the sub-record of moduleOrder in p, NoProgress when there is none
ModuleRecord(p, moduleOrder) ==
  IF FindModuleProgress(p, moduleOrder) = 0 THEN NoProgress
  ELSE p.moduleProgress[FindModuleProgress(p, moduleOrder)]

\* the step appended one entry to list (notes or bookmarks) of moduleOrder and
\* left everything else of the Progress of u as it was
AppendedOne(u, moduleOrder, list) ==
  LET i == FindModuleProgress(progress[u], moduleOrder)
      before == progress[u].moduleProgress[i]
      after == progress'[u].moduleProgress[i]
  IN /\ Len(after[list]) = Len(before[list]) + 1
     /\ \A k \in 1..Len(before[list]) : after[list][k] = before[list][k]
     /\ [progress'[u] EXCEPT !.moduleProgress[i] = before] = progress[u]
     /\ [after EXCEPT ![list] = before[list]] = before

\* a note or bookmark request of an enrolled learner
NoteCall(u, moduleOrder) ==
  Enrolled_(u) /\ \E c \in Contents : AddNoteRequest(u, moduleOrder, c, 0)

BookmarkCall(u, moduleOrder) ==
  /\ Enrolled_(u)
  /\ \E ts \in Timestamps, t \in Titles : AddBookmarkRequest(u, moduleOrder, ts, t)

\* C20: addNote and addBookmark on a moduleOrder without a sub-record fail and
\* leave the Progress unchanged (no sub-record is created); once the module
\* was watched they append exactly one entry to that module's list and leave
\* every other list unchanged.
C20_NotesNeedWatchedModule ==
  [][\A u \in Users, m \in OrderInputs :
       /\ NoteCall(u, m) =>
            IF ModuleRecord(progress[u], m) = NoProgress
            THEN response' = NoteFailed /\ progress' = progress
            ELSE response' = NoteAdded /\ AppendedOne(u, m, "notes")
       /\ BookmarkCall(u, m) =>
            IF ModuleRecord(progress[u], m) = NoProgress
            THEN response' = BookmarkFailed /\ progress' = progress
            ELSE response' = BookmarkAdded /\ AppendedOne(u, m, "bookmarks")]_vars

\* a note was added to the second of two watched modules
C20_Witness ==
  /\ response = NoteAdded
  /\ \E u \in Users :
       /\ Enrolled_(u)
       /\ Len(progress[u].moduleProgress) = 2
       /\ progress[u].moduleProgress[1].notes = <<>>
       /\ Len(progress[u].moduleProgress[2].notes) = 1

\* a token of the shape PT[nH][nM][nS] with at least one component
WellShaped(t) ==
  /\ t.prefix = <<"P", "T">>
  /\ t.suffix = <<>>
  /\ \E n \in {t.hours, t.minutes, t.seconds} : n # NoComponent

\* a component left out counts as zero
Amount(n) == IF n = NoComponent THEN 0 ELSE n

\* C21: parseDuration maps every token PT[nH][nM][nS] to 3600*H + 60*M + S,
\* missing components counting as zero, and fails on every malformed token:
\* one without digits ('PT'), one with trailing characters, one without the
\* PT prefix.
C21_ParseOrFail ==
  parsed # NotParsed =>
    IF WellShaped(token)
    THEN /\ ~parsed.threw
         /\ parsed.seconds =
              3600 * Amount(token.hours) + 60 * Amount(token.minutes)
                + Amount(token.seconds)
    ELSE parsed.threw

\* the mutations a request is to persist
Mutations(h) ==
  IF h.kind = "watch" /\ ~h.isCompleted THEN {"progress"}
  ELSE {"progress", "course", "user"}

\* the mutations handler h has persisted when the step it is at ends its request
Persisted(h) ==
  h.written \cup
    (IF h.step = "saveUser" THEN {"user"}
     ELSE IF h.step = "saveProgress" /\ h.kind = "watch" THEN {"progress"}
     ELSE {})

\* C22: no request partially commits: when an enroll or watch request ends,
\* either all of its mutations (Progress, Course enrollment, learner) are
\* persisted or none is, also when Course.completeModule throws.
C22_AllOrNothing ==
  [][\A r \in Requesters :
       (handlers[r] # Idle /\ handlers'[r] = Idle) =>
         \/ Persisted(handlers[r]) = {}
         \/ Persisted(handlers[r]) = Mutations(handlers[r])]_vars

\* handlers a and b have both found the module of their request not
\* completed, marked it completed and saved their Progress
BothCounted(a, b) ==
  /\ a # b
  /\ handlers[a] # Idle /\ handlers[b] # Idle
  /\ handlers[a].user = handlers[b].user
  /\ handlers[a].moduleOrder = handlers[b].moduleOrder
  /\ handlers[a].counted /\ handlers[b].counted

\* C23 as stated: after two concurrent requests completing the same module
\* for the same learner have both written back, the stored completedModules
\* counter has been incremented twice for that module: it exceeds the number
\* of distinct completed modules.
C23_DoubleIncrement ==
  \A a, b \in Requesters :
    BothCounted(a, b) =>
      progress[handlers[a].user].completedModules >
        Cardinality(CompletedOrders(progress[handlers[a].user]))

\* C23 as amended: both requests can find the module not completed and both
\* write back, but each writes the counter it read plus one: after both have
\* written back the stored completedModules does not exceed the number of
\* distinct completed modules.
C23_NoDoubleIncrement ==
  \A a, b \in Requesters :
    BothCounted(a, b) =>
      progress[handlers[a].user].completedModules <=
        Cardinality(CompletedOrders(progress[handlers[a].user]))

\* two requests in flight have both completed module 1 of a learner whose
\* stored counter is 1
C23_Witness ==
  \E a, b \in Requesters :
    /\ BothCounted(a, b)
    /\ handlers[a].moduleOrder = 1
    /\ progress[handlers[a].user].completedModules = 1
    /\ CompletedOrders(progress[handlers[a].user]) = {1}

\* the number of pages a catalog serves when asked for `asked` items a page:
\* its pages without items and the pages its items fill, at least one
CatalogPages(cat, asked) ==
  LET served == Min(asked, cat.pageCap)
      filled == IF served = 0 THEN 1 ELSE LET full == (cat.n + served - 1) \div served
                     IN IF full = 0 THEN 1 ELSE full
  IN Cardinality(cat.blank) + filled

\* the loop of getPlaylistVideos has a further iteration to run
Looping == fetched # NotFetched /\ fetched.status = "running"

\* C24: the paging loop issues a further page request only while the catalog
\* returned a continuation token and fewer than maxResults items are held; it
\* never asks for more than 50 items a page; and it terminates for every
\* playlist, also when a page carries no item and a continuation token: every
\* iteration is one more request, and a loop that has a further iteration to
\* run has made fewer requests than the catalog has pages.
C24_PagingStops ==
  /\ [][(fetched # NotFetched /\ fetched'.requests = fetched.requests + 1) =>
          \/ fetched.requests = 0
          \/ /\ fetched.nextPageToken # Null
             /\ Len(fetched.videos) < fetched.maxResults]_vars
  /\ [](fetched # NotFetched => fetched.asked <= 50)
  /\ [][Looping => fetched'.requests = fetched.requests + 1]_vars
  /\ [](Looping => fetched.requests < CatalogPages(catalog, fetched.asked))

\* a playlist of 51 items whose first two pages carried no item, fetched with
\* maxResults = 75 in four requests
C24_Witness ==
  /\ Returned
  /\ catalog.blank = {1, 2}
  /\ catalog.n = 51
  /\ fetched.maxResults = 75
  /\ fetched.requests = 4
  /\ Len(fetched.videos) = 51

\* the XP that the distinct completed modules of a learner carry
RECURSIVE RewardSum(_)
RewardSum(orders) ==
  IF orders = {} THEN 0
  ELSE LET o == CHOOSE x \in orders : TRUE
           m == FindModule(course, o)
       IN (IF m = 0 THEN 0 ELSE course.modules[m].xpReward) + RewardSum(orders \ {o})

\* the distinct modules a learner has completed
DistinctCompleted(u) == IF Enrolled_(u) THEN CompletedOrders(progress[u]) ELSE {}

\* C25: completion rewards are granted at most once per (learner, module): the
\* XP gained from completions is the sum of xpReward over the distinct modules
\* completed, and totalVideosWatched is the number of distinct modules
\* completed.
C25_RewardedOnce ==
  \A u \in Users :
    /\ users[u].totalVideosWatched = Cardinality(DistinctCompleted(u))
    /\ users[u].xp = RewardSum(DistinctCompleted(u))

\* C26: longestStreak >= currentStreak in every state reached from a new
\* record by updateStreak calls, for the account-level streak and for the
\* course-level streak, also when the first activity comes more than one day
\* after creation.
C26_LongestCoversCurrent ==
  \A u \in Users :
    /\ users[u].streak.longest >= users[u].streak.current
    /\ Enrolled_(u) => progress[u].longestStreak >= progress[u].currentStreak

\* C27: in every reachable Progress state, isCompleted = true implies
\* overallProgress = 100: once the course is marked completed no later
\* recordWatch lowers overallProgress below 100.
C27_CompletedStaysFull ==
  \A u \in Users :
    (Enrolled_(u) /\ progress[u].isCompleted) => progress[u].overallProgress = 100

\* the enrollment entry of learner u in the Course
EnrollmentOf(u) == course.enrolledUsers[FindEnrollment(course, u)]

\* the Progress record and the enrollment entry name the same completed modules
SameCompletedModules(u) ==
  CompletedOrders(progress[u]) =
    {EnrollmentOf(u).completedModules[i] : i \in 1..Len(EnrollmentOf(u).completedModules)}

\* C28: the two copies of completion state agree: for each (learner, course)
\* the module orders marked isCompleted in the Progress record are the
\* completedModules of the learner's enrollment entry in the Course, and
\* Progress.overallProgress is that entry's progress percentage.
C28_CopiesAgree ==
  \A u \in Users :
    Enrolled_(u) =>
      /\ FindEnrollment(course, u) # 0
      /\ SameCompletedModules(u)
      /\ progress[u].overallProgress = EnrollmentOf(u).progress

\* the enrollment entries whose progress has reached 100
FinishedEntries ==
  {i \in 1..Len(course.enrolledUsers) : course.enrolledUsers[i].progress >= 100}

\* C29: Course.totalCompletions counts each enrolled learner at most once: it
\* never exceeds the number of enrollment entries whose progress has reached
\* 100, and so never totalEnrollments, and an enrollment entry's progress never
\* exceeds 100.
C29_CompletionsCountLearners ==
  /\ course.totalCompletions <= Cardinality(FinishedEntries)
  /\ course.totalCompletions <= course.totalEnrollments
  /\ \A i \in 1..Len(course.enrolledUsers) : course.enrolledUsers[i].progress <= 100

\* the Progress records of learner u with isCompleted = true
CompletedCourses(u) == IF Enrolled_(u) /\ progress[u].isCompleted THEN 1 ELSE 0

\* C30: the completed-course count that ranks learners is kept in step with
\* completion: after every request a learner's totalCoursesCompleted is the
\* number of that learner's Progress records with isCompleted = true.
C30_CoursesCompletedCounted ==
  \A u \in Users : users[u].totalCoursesCompleted = CompletedCourses(u)

====
